---------------------------- MODULE Spec2Model ----------------------------
(***************************************************************************)
(* Training tracker backend: the persistence store (TrainingDay,           *)
(* PlannedActivity, ActualActivity), the streak engine                     *)
(* (services/training.js calculateStreak), the weekly consistency engine   *)
(* (routes/stats.js GET /weekly) and the training routes (get-or-create of *)
(* a TrainingDay, GET /:date, POST /:date/planned, DELETE planned).        *)
(*                                                                         *)
(* Time: an instant is a whole number of hours since the epoch (UTC); a    *)
(* calendar date is a day number; the server's zone is a fixed offset in   *)
(* hours.  A time-of-day "HH:MM" is the pair <<HH, MM>>.                   *)
(***************************************************************************)
EXTENDS Integers, Sequences, FiniteSets, TLC

VARIABLES
  trainingDays,       \* TrainingDay table: a set of records
  plannedActivities,  \* PlannedActivity table, in store order
  actualActivities,   \* ActualActivity table, in store order
  nextId,             \* next fresh record id
  now,                \* the instant of the statistics request (hours, UTC)
  tz,                 \* the server's zone offset (hours east of UTC)
  streakRun,          \* the running calculateStreak call
  weeklyRes,          \* the response of GET /api/stats/weekly
  formatRun,          \* the formatTrainingDayResponse calls on one record
  req,                \* per request slot: the request being served
  pc,                 \* per request slot: the handler's position
  loc,                \* per request slot: the handler's local trainingDay id
  resp,               \* the response sent last
  started             \* number of training requests started so far

vars == <<trainingDays, plannedActivities, actualActivities, nextId, now, tz,
          streakRun, weeklyRes, formatRun, req, pc, loc, resp, started>>

storeVars == <<trainingDays, plannedActivities, actualActivities, nextId>>
envVars == <<now, tz>>
reqVars == <<req, pc, loc, resp, started>>

\* null / undefined, for a number, for a time-of-day and for an outcome
NullInt == 0 - 1
NoTime == <<>>

-----------------------------------------------------------------------------
(* Program constants *)

\* makes >= 200: a completed shooting day
Threshold == 200
\* if (streak > 365) break
SafetyLimit == 365
\* diffMinutes <= 30
OnTimeTolerance == 30
\* for (let i = 0; i < 7; i++)
WeekLength == 7
\* weekAgo.setDate(weekAgo.getDate() - 6)
WeekBack == 6

(* Bounds of the model *)

\* the calendar day number of the request instant's UTC date
BaseDay == 400
\* the longest run of completed days in a streak history
MaxRun == 368
\* the length of the freely chosen recent part of a streak history
RecentDays == 3
\* concurrent request slots
MaxSlots == 2
\* hours that pass between requests
MaxTicks == 1
\* records in each collection of a TrainingDay given to the formatter
MaxRecords == 2
\* formatTrainingDayResponse calls on one TrainingDay
MaxCalls == 2
\* training requests started in a behaviour
MaxStarted == 2
\* the dates of a weekly store that hold a TrainingDay of the caller
MaxWeekDays == 2

-----------------------------------------------------------------------------
(* Dates *)

HoursPerDay == 24

\* new Date(date + 'T00:00:00.000Z'): the instant of UTC midnight of a date
ParseDate(d) == d * HoursPerDay

\* x.toISOString().split('T')[0]: the UTC calendar date of an instant
DateStr(t) == t \div HoursPerDay

\* x.setHours(0, 0, 0, 0): the instant of local midnight of x's local date
SetHoursZero(t, off) == ((t + off) \div HoursPerDay) * HoursPerDay - off

\* x.setDate(x.getDate() + n): n local calendar days later, same local time
SetDatePlus(t, n) == t + n * HoursPerDay

\* The UTC calendar date of the request instant: the reference date "today"
Today == DateStr(now)

\* The calendar date of the request instant in the server's zone
LocalToday == DateStr(now + tz)

-----------------------------------------------------------------------------
(* Store queries.  An optional record is a sequence of length 0 or 1. *)

\* prisma.trainingDay.findUnique({where: {userId_date: {userId, date}}})
FindDayByUserDate(userId, date) ==
  LET found == {d \in trainingDays : d.userId = userId /\ d.date = date}
  IN IF found = {} THEN <<>> ELSE <<CHOOSE d \in found : TRUE>>

\* include: {actualActivities: true}
ActualOf(dayId) == SelectSeq(actualActivities, LAMBDA a : a.trainingDayId = dayId)

\* include: {plannedActivities: true}
PlannedOf(dayId) == SelectSeq(plannedActivities, LAMBDA p : p.trainingDayId = dayId)

\* xs.find(a => a.type === type), xs.filter(...)[0]: the first record of
\* the type, if any
FirstOfType(xs, type) ==
  LET s == SelectSeq(xs, LAMBDA a : a.type = type)
  IN IF s = <<>> THEN <<>> ELSE <<s[1]>>

\* activity?.shootingMakes || 0
MakesOrZero(a) ==
  IF a = <<>> THEN 0
  ELSE IF a[1].shootingMakes = NullInt THEN 0 ELSE a[1].shootingMakes

-----------------------------------------------------------------------------
(* Streak engine: calculateStreak *)

\* One findUnique of the loop: the makes of the shooting record of the
\* user's TrainingDay at the UTC date of currentDate (0 when absent)
StreakMakes(userId, dateStr) ==
  LET day == FindDayByUserDate(userId, ParseDate(dateStr))
      shooting == IF day = <<>> THEN <<>>
                  ELSE FirstOfType(ActualOf(day[1].id), "shooting")
  IN MakesOrZero(shooting)

\* A safety limit that stops one iteration earlier
SafetyStopAtLimit(streak) == streak >= SafetyLimit

\* if (streak > 365) break
SafetyStop(streak) == streak > SafetyLimit

\* A gap that stops the loop only once a streak has begun
GapStopOnStreak(streak, currentDate, today) == streak > 0

\* else if (streak > 0 || currentDate < today)
GapStop(streak, currentDate, today) == streak > 0 \/ currentDate < today

StreakIdle == [pc |-> "idle", userId |-> 0, today |-> 0, currentDate |-> 0,
               streak |-> 0, dateStr |-> NullInt, result |-> NullInt]

\* const today = new Date(); today.setHours(0,0,0,0); streak = 0;
\* currentDate = new Date(today)
StreakBegin(userId) ==
  /\ streakRun.pc = "idle"
  /\ streakRun' = [pc |-> "loop", userId |-> userId,
                   today |-> SetHoursZero(now, tz),
                   currentDate |-> SetHoursZero(now, tz),
                   streak |-> 0, dateStr |-> NullInt, result |-> NullInt]
  /\ UNCHANGED <<storeVars, envVars, weeklyRes, formatRun, reqVars>>

\* A lookup that creates the TrainingDay it does not find
DaysAfterGetOrCreate(userId, dateStr) ==
  IF FindDayByUserDate(userId, ParseDate(dateStr)) = <<>>
  THEN trainingDays \cup {[id |-> nextId, userId |-> userId,
                           date |-> ParseDate(dateStr), isGameDay |-> FALSE]}
  ELSE trainingDays

\* The TrainingDay table after the loop's prisma.trainingDay.findUnique: a
\* read, whether or not the date has a TrainingDay
DaysAfterLookup(userId, dateStr) == trainingDays

\* One iteration of while (true): the body up to the safety check
StreakIter ==
  /\ streakRun.pc = "loop"
  /\ LET dateStr == DateStr(streakRun.currentDate)
         makes == StreakMakes(streakRun.userId, dateStr)
         s == streakRun.streak
     IN IF makes >= Threshold
        THEN streakRun' =
               [streakRun EXCEPT !.dateStr = dateStr, !.streak = s + 1,
                  !.currentDate = SetDatePlus(streakRun.currentDate, -1),
                  !.pc = IF SafetyStop(s + 1) THEN "done" ELSE "loop",
                  !.result = IF SafetyStop(s + 1) THEN s + 1 ELSE NullInt]
        ELSE IF GapStop(s, streakRun.currentDate, streakRun.today)
        THEN streakRun' = [streakRun EXCEPT !.dateStr = dateStr,
                             !.pc = "done", !.result = s]
        ELSE streakRun' =
               [streakRun EXCEPT !.dateStr = dateStr,
                  !.currentDate = SetDatePlus(streakRun.currentDate, -1),
                  !.pc = IF SafetyStop(s) THEN "done" ELSE "loop",
                  !.result = IF SafetyStop(s) THEN s ELSE NullInt]
  /\ trainingDays' = DaysAfterLookup(streakRun.userId,
                                      DateStr(streakRun.currentDate))
  /\ UNCHANGED <<plannedActivities, actualActivities, nextId, envVars,
                 weeklyRes, formatRun, reqVars>>


-----------------------------------------------------------------------------
(* Double-precision arithmetic of Math.round((onTime / totalPlanned) * 100). *)
(* A binary number is a sequence of bits, most significant first, with the  *)
(* number of its bits that follow the binary point.                         *)

\* The significand of a double: 53 bits
Precision == 53

\* bits + 1
Increment(bits) ==
  IF \A i \in 1..Len(bits) : bits[i] = 1
  THEN <<1>> \o [i \in 1..Len(bits) |-> 0]
  ELSE LET k == CHOOSE i \in 1..Len(bits) :
                  bits[i] = 0 /\ \A j \in (i + 1)..Len(bits) : bits[j] = 1
       IN [i \in 1..Len(bits) |->
             IF i < k THEN bits[i] ELSE IF i = k THEN 1 ELSE 0]

\* Round to nearest, ties to even: the bits kept, the first bit dropped and
\* whether any later dropped bit is set
RoundEven(kept, guard, sticky) ==
  IF guard = 1 /\ (sticky \/ kept[Len(kept)] = 1)
  THEN Increment(kept) ELSE kept

\* The value of a short bit sequence
RECURSIVE BitsToNat(_)
BitsToNat(bits) ==
  IF bits = <<>> THEN 0
  ELSE 2 * BitsToNat(SubSeq(bits, 1, Len(bits) - 1)) + bits[Len(bits)]

\* The remainders of the long division by t, from remainder r on: n of them
RECURSIVE RemaindersFrom(_, _, _)
RemaindersFrom(r, t, n) ==
  IF n = 0 THEN <<>> ELSE <<r>> \o RemaindersFrom((2 * r) % t, t, n - 1)

\* The remainders of the long division o / t after 0, 1, ... bits
\* (rem[i + 1] is the remainder after i bits)
Remainders(o, t) == RemaindersFrom(o, t, Precision + 32)

\* The double nearest to o / t, from the remainders of the long division
QuotientFrom(rem, t) ==
  LET lead == CHOOSE i \in 1..31 :
                2 * rem[i] >= t /\ \A j \in 1..(i - 1) : 2 * rem[j] < t
      last == lead + Precision - 1
  IN [bits |-> RoundEven([i \in 1..Precision |->
                            IF 2 * rem[lead + i - 1] >= t THEN 1 ELSE 0],
                         IF 2 * rem[last + 1] >= t THEN 1 ELSE 0,
                         (2 * rem[last + 1]) % t # 0),
      frac |-> last]

\* onTime / totalPlanned: the double nearest to the quotient (0 < o <= t)
DoubleQuotient(o, t) ==
  IF o = t THEN [bits |-> <<1>>, frac |-> 0]
  ELSE CHOOSE q \in {QuotientFrom(rem, t) : rem \in {Remainders(o, t)}} : TRUE

\* Column i (from the least significant, column 0) of bits * 2^shift
Column(bits, i, shift) ==
  IF i - shift >= 0 /\ i - shift < Len(bits)
  THEN bits[Len(bits) - (i - shift)] ELSE 0

\* The carries into columns i, i + 1, ... of bits * 64 + bits * 32 +
\* bits * 4, given the carry c into column i: n of them
RECURSIVE CarriesFrom(_, _, _, _)
CarriesFrom(bits, i, c, n) ==
  IF n = 0 THEN <<>>
  ELSE <<c>> \o CarriesFrom(bits, i + 1,
                            (Column(bits, i, 6) + Column(bits, i, 5)
                               + Column(bits, i, 2) + c) \div 2,
                            n - 1)

\* carry[i + 1] is the carry into column i
Carries(bits) == CarriesFrom(bits, 0, 0, Len(bits) + 8)

\* bits * 100, least significant bit first, from the carries
ProductLsb(bits, carry) ==
  [i \in 1..(Len(bits) + 7) |->
     (Column(bits, i - 1, 6) + Column(bits, i - 1, 5)
        + Column(bits, i - 1, 2) + carry[i]) % 2]

\* Most significant bit first, without leading zeros
Normalize(lsb) ==
  LET top == CHOOSE i \in 1..Len(lsb) :
               lsb[i] = 1 /\ \A j \in (i + 1)..Len(lsb) : lsb[j] = 0
  IN [i \in 1..top |-> lsb[top + 1 - i]]

\* The exact number bits / 2^frac rounded to a double
RoundToDouble(exact, frac) ==
  LET drop == Len(exact) - Precision
  IN IF drop <= 0 THEN [bits |-> exact, frac |-> frac]
     ELSE [bits |-> RoundEven(SubSeq(exact, 1, Precision),
                              exact[Precision + 1],
                              \E i \in (Precision + 2)..Len(exact) : exact[i] = 1),
           frac |-> frac - drop]

\* x * 100 = x * 64 + x * 32 + x * 4: the double nearest to the product
DoubleTimes100(x) ==
  CHOOSE p \in {RoundToDouble(exact, x.frac) :
                  exact \in {Normalize(ProductLsb(x.bits, carry)) :
                               carry \in {Carries(x.bits)}}} : TRUE

\* Math.round(x): the nearest integer, a half rounding up
MathRound(x) ==
  LET n == Len(x.bits) - x.frac
  IN IF n < 0 THEN 0
     ELSE BitsToNat(SubSeq(x.bits, 1, n))
            + (IF x.frac > 0 THEN x.bits[n + 1] ELSE 0)

\* Math.round((onTime / totalPlanned) * 100)
RoundPercent(o, t) ==
  IF o = 0 THEN 0
  ELSE CHOOSE r \in {MathRound(p) :
                       p \in {DoubleTimes100(q) : q \in {DoubleQuotient(o, t)}}} :
         TRUE

-----------------------------------------------------------------------------
(* Weekly consistency engine: GET /api/stats/weekly *)

\* const [h, m] = time.split(':').map(Number); h * 60 + m
ToMinutes(time) == time[1] * 60 + time[2]

\* Math.abs(x)
Abs(x) == IF x < 0 THEN 0 - x ELSE x

\* date.getDay(): the weekday of the local calendar date (day 0 of the
\* epoch is a Thursday)
GetDay(t, off) == (DateStr(t + off) + 4) % 7

\* orderBy: {date: 'asc'}
SortByDate(days) ==
  CHOOSE s \in [1..Cardinality(days) -> days] :
    \A i, j \in 1..Cardinality(days) :
      i < j => \/ s[i].date < s[j].date
               \/ s[i].date = s[j].date /\ s[i].id < s[j].id

\* prisma.trainingDay.findMany({where: {userId, date: {gte, lte}}, ...})
FindDaysInRange(userId, from, to) ==
  SortByDate({d \in trainingDays :
                d.userId = userId /\ d.date >= from /\ d.date <= to})

\* trainingDays.find(d => d.date.toISOString().split('T')[0] === dateStr)
FindDayData(fetched, dateStr) ==
  LET s == SelectSeq(fetched, LAMBDA d : DateStr(d.date) = dateStr)
  IN IF s = <<>> THEN <<>> ELSE <<s[1]>>

\* One entry of dailyStats: the loop body for the instant `date`
DailyEntry(fetched, date) ==
  LET dayData == FindDayData(fetched, DateStr(date))
      shooting == IF dayData = <<>> THEN <<>>
                  ELSE FirstOfType(ActualOf(dayData[1].id), "shooting")
      makes == MakesOrZero(shooting)
  IN [date |-> DateStr(date), dayOfWeek |-> GetDay(date, tz),
      makes |-> makes, completed |-> makes >= Threshold]

\* if (actual?.completedAt && planned.plannedTime) { ... diffMinutes <= 30 }
\* for the first actual activity of the planned activity's type
IsOnTime(planned) ==
  LET actual == FirstOfType(ActualOf(planned.trainingDayId), planned.type)
  IN /\ actual # <<>>
     /\ actual[1].completedAt # NoTime
     /\ planned.plannedTime # NoTime
     /\ Abs(ToMinutes(actual[1].completedAt) - ToMinutes(planned.plannedTime))
          <= OnTimeTolerance

\* The value of 0 / 0 * 100
NaN == NullInt

\* A score whose division is not guarded against totalPlanned = 0
ConsistencyUnguarded(onTime, totalPlanned) ==
  IF totalPlanned = 0 THEN NaN ELSE RoundPercent(onTime, totalPlanned)

\* totalPlanned > 0 ? Math.round((onTime / totalPlanned) * 100) : 0
ConsistencyScore(onTime, totalPlanned) ==
  IF totalPlanned > 0 THEN RoundPercent(onTime, totalPlanned) ELSE 0

RECURSIVE SumMakes(_)
\* dailyStats.reduce((sum, d) => sum + d.makes, 0)
SumMakes(stats) ==
  IF stats = <<>> THEN 0 ELSE Head(stats).makes + SumMakes(Tail(stats))

\* The response of the handler for the days it fetched
WeeklyResponse(fetched, weekAgo) ==
  LET ids == {fetched[i].id : i \in 1..Len(fetched)}
      dailyStats == [i \in 1..WeekLength |->
                       DailyEntry(fetched, SetDatePlus(weekAgo, i - 1))]
      completedDays == Len(SelectSeq(dailyStats, LAMBDA d : d.completed))
      planned == SelectSeq(plannedActivities,
                           LAMBDA p : p.trainingDayId \in ids)
      onTime == Len(SelectSeq(planned, IsOnTime))
  IN [fetched |-> ids,
      dailyStats |-> dailyStats,
      completionPercentage |-> RoundPercent(completedDays, WeekLength),
      onTime |-> onTime,
      totalPlanned |-> Len(planned),
      consistencyScore |-> ConsistencyScore(onTime, Len(planned)),
      totalMakes |-> SumMakes(dailyStats)]

\* router.get('/weekly'): today at local midnight, weekAgo six days before
WeeklyRequest(userId) ==
  /\ weeklyRes = <<>>
  /\ LET today == SetHoursZero(now, tz)
         weekAgo == SetDatePlus(today, 0 - WeekBack)
     IN weeklyRes' = <<WeeklyResponse(FindDaysInRange(userId, weekAgo, today),
                                      weekAgo)>>
  /\ UNCHANGED <<storeVars, envVars, streakRun, formatRun, reqVars>>

-----------------------------------------------------------------------------
(* The environment of a statistics request, and the stores it may find *)

\* The server's zone: west of UTC, UTC, east of UTC
TZOffsets == {0 - 5, 0, 2}

\* The request instant: early, midday and late on day BaseDay (UTC)
NowChoices == {ParseDate(BaseDay) + 1, ParseDate(BaseDay) + 12,
               ParseDate(BaseDay) + 23}

Slots == 1..MaxSlots

\* The caller and another user
Caller == 1
OtherUser == 2

\* No training request in flight
\* (time is the body's time or completedAt, makes its shootingMakes or
\* makes, isGameDay its optional flag, existing the record the handler has
\* looked up)
IdleReq == [kind |-> "none", userId |-> 0, date |-> 0, type |-> "none",
            time |-> NoTime, activityId |-> NullInt, makes |-> NullInt,
            isGameDay |-> <<>>, existing |-> <<>>]

\* No response yet
NoResp == [status |-> 0, error |-> "", id |-> NullInt]

ReqInit ==
  /\ req = [r \in Slots |-> IdleReq]
  /\ pc = [r \in Slots |-> "idle"]
  /\ loc = [r \in Slots |-> NullInt]
  /\ resp = NoResp
  /\ started = 0

\* What a date holds for the caller: no TrainingDay, a TrainingDay without a
\* shooting record, a shooting record just below / at the threshold
Shapes == {"none", "empty", "low", "hit"}

ShapeMakes(shape) == IF shape = "hit" THEN Threshold ELSE Threshold - 1

\* A streak history: the shapes of the RecentDays dates ending at the
\* reference date, preceded by a run of completed days.  Either the recent
\* dates are free and nothing precedes them, or all dates before the
\* reference date are completed, in a run of up to MaxRun days.
StreakHistories ==
  {[recent |-> r, run |-> 0] : r \in [0..(RecentDays - 1) -> Shapes]}
  \cup
  {[recent |-> [i \in 0..(RecentDays - 1) |-> IF i = 0 THEN t ELSE "hit"],
    run |-> n] :
     t \in {"none", "hit"},
     n \in (MaxRun - RecentDays - 3)..(MaxRun - RecentDays + 1)}

HistoryDepth(h) == RecentDays + h.run

\* The shape of the date `off` days before the reference date
HistoryShape(h, off) ==
  IF off < 0 THEN "none"
  ELSE IF off < RecentDays THEN h.recent[off]
  ELSE IF off < HistoryDepth(h) THEN "hit" ELSE "none"

\* The tables of a history: the caller's TrainingDay of date d has id d and
\* its shooting record id 2000 + d; the other user has completed days at
\* the reference date and the two dates before it.
HistoryDays(h) ==
  {[id |-> Today - off, userId |-> Caller, date |-> ParseDate(Today - off),
    isGameDay |-> FALSE] :
     off \in {o \in 0..(HistoryDepth(h) - 1) : HistoryShape(h, o) # "none"}}
  \cup
  {[id |-> 1000 + Today - off, userId |-> OtherUser,
    date |-> ParseDate(Today - off), isGameDay |-> FALSE] : off \in 0..2}

HistoryActuals(h) ==
  SelectSeq([i \in 1..HistoryDepth(h) |->
               [id |-> 2000 + Today - (i - 1), trainingDayId |-> Today - (i - 1),
                type |-> "shooting", completedAt |-> NoTime,
                shootingMakes |-> ShapeMakes(HistoryShape(h, i - 1))]],
            LAMBDA a : HistoryShape(h, Today - a.trainingDayId) \in {"low", "hit"})
  \o
  [i \in 1..3 |->
     [id |-> 3000 + Today - (i - 1), trainingDayId |-> 1000 + Today - (i - 1),
      type |-> "shooting", completedAt |-> NoTime,
      shootingMakes |-> Threshold + 50]]

InitStreak ==
  /\ now \in NowChoices
  /\ tz \in TZOffsets
  /\ \E h \in StreakHistories :
       /\ trainingDays = HistoryDays(h)
       /\ actualActivities = HistoryActuals(h)
  /\ plannedActivities = <<>>
  /\ nextId = 1
  /\ streakRun = StreakIdle
  /\ weeklyRes = <<>>
  /\ formatRun = <<>>
  /\ ReqInit

\* What a TrainingDay of a weekly store holds: its planned activities
\* (type, time) and its actual activities (type, completion time, makes)
P(type, time) == [type |-> type, time |-> time]
A(type, completedAt, makes) ==
  [type |-> type, completedAt |-> completedAt, makes |-> makes]

\* Days of one or two activities
BasicContents ==
  { [planned |-> <<>>, actual |-> <<>>],
    [planned |-> <<P("shooting", <<17, 0>>)>>,
     actual |-> <<A("shooting", <<17, 20>>, 210)>>],
    [planned |-> <<P("shooting", <<17, 0>>)>>,
     actual |-> <<A("shooting", <<17, 31>>, 199)>>],
    [planned |-> <<P("shooting", <<17, 0>>)>>, actual |-> <<>>],
    [planned |-> <<>>, actual |-> <<A("shooting", <<10, 0>>, 300)>>],
    [planned |-> <<P("pickup", <<18, 0>>), P("custom", <<9, 0>>)>>,
     actual |-> <<A("custom", <<8, 45>>, NullInt)>>] }

\* Days at the edges of the tolerance, with a missing completion time, with
\* two actual pickups, and a day of 40 planned pickups, 23 of them on time
EdgeContents ==
  { [planned |-> <<P("shooting", <<17, 0>>)>>,
     actual |-> <<A("shooting", <<17, 30>>, 200)>>],
    [planned |-> <<P("shooting", <<17, 0>>)>>,
     actual |-> <<A("shooting", <<16, 30>>, 200)>>],
    [planned |-> <<P("shooting", <<17, 0>>)>>,
     actual |-> <<A("shooting", NoTime, 250)>>],
    [planned |-> <<P("pickup", <<18, 0>>)>>,
     actual |-> <<A("pickup", <<19, 0>>, NullInt),
                  A("pickup", <<18, 10>>, NullInt)>>],
    [planned |-> [i \in 1..40 |->
                    P("pickup", IF i <= 23 THEN <<17, 0>> ELSE <<12, 0>>)],
     actual |-> <<A("pickup", <<17, 10>>, NullInt)>>] }

\* The dates a weekly store may hold a TrainingDay of the caller at, in days
\* before the reference date: around both ends of the window
WeekOffsets == <<7, 6, 1, 0, 0 - 1>>

NoDay == [planned |-> <<>>, actual |-> <<>>, absent |-> TRUE]

\* A weekly store: at most MaxWeekDays dates hold a TrainingDay; one day
\* alone may hold any content, several days hold basic contents
WeeklyStores ==
  {w \in [1..Len(WeekOffsets) -> BasicContents \cup EdgeContents \cup {NoDay}] :
     LET used == {i \in 1..Len(WeekOffsets) : w[i] # NoDay}
     IN /\ Cardinality(used) <= MaxWeekDays
        /\ Cardinality(used) > 1 => \A i \in used : w[i] \in BasicContents}

\* The caller's TrainingDay of date d has id d, its k-th planned activity
\* id 4000 + 100 * i + k and its k-th actual activity 5000 + 100 * i + k
WeekDayId(i) == Today - WeekOffsets[i]

WeekPlannedRows(w, i) ==
  [k \in 1..Len(w[i].planned) |->
     [id |-> 4000 + 100 * i + k, trainingDayId |-> WeekDayId(i),
      type |-> w[i].planned[k].type, plannedTime |-> w[i].planned[k].time,
      location |-> "null", name |-> "null"]]

WeekActualRows(w, i) ==
  [k \in 1..Len(w[i].actual) |->
     [id |-> 5000 + 100 * i + k, trainingDayId |-> WeekDayId(i),
      type |-> w[i].actual[k].type, completedAt |-> w[i].actual[k].completedAt,
      shootingMakes |-> w[i].actual[k].makes]]

\* The other user's day, on the day before the reference date
OtherDayId == 1000 + Today - 1

WeekDays(w) ==
  {[id |-> WeekDayId(i), userId |-> Caller,
    date |-> ParseDate(Today - WeekOffsets[i]), isGameDay |-> FALSE] :
     i \in {j \in 1..Len(WeekOffsets) : w[j] # NoDay}}
  \cup {[id |-> OtherDayId, userId |-> OtherUser,
          date |-> ParseDate(Today - 1), isGameDay |-> FALSE]}

WeekPlanned(w) ==
  WeekPlannedRows(w, 1) \o WeekPlannedRows(w, 2) \o WeekPlannedRows(w, 3)
    \o WeekPlannedRows(w, 4) \o WeekPlannedRows(w, 5)
    \o <<[id |-> 4999, trainingDayId |-> OtherDayId, type |-> "shooting",
          plannedTime |-> <<17, 0>>, location |-> "null", name |-> "null"]>>

WeekActuals(w) ==
  WeekActualRows(w, 1) \o WeekActualRows(w, 2) \o WeekActualRows(w, 3)
    \o WeekActualRows(w, 4) \o WeekActualRows(w, 5)
    \o <<[id |-> 5999, trainingDayId |-> OtherDayId, type |-> "shooting",
          completedAt |-> <<17, 0>>, shootingMakes |-> 300]>>

InitWeekly ==
  /\ now \in NowChoices
  /\ tz \in TZOffsets
  /\ \E w \in WeeklyStores :
       /\ trainingDays = WeekDays(w)
       /\ plannedActivities = WeekPlanned(w)
       /\ actualActivities = WeekActuals(w)
  /\ nextId = 1
  /\ streakRun = StreakIdle
  /\ weeklyRes = <<>>
  /\ formatRun = <<>>
  /\ ReqInit

\* GET /api/stats/weekly by the caller
NextWeekly == WeeklyRequest(Caller)

SpecWeekly == InitWeekly /\ [][NextWeekly]_vars

\* GET /api/stats/streak by the caller
StreakRequest == StreakBegin(Caller)

NextStreak == StreakRequest \/ StreakIter

SpecStreak == InitStreak /\ [][NextStreak]_vars

\* The streak request with every findUnique of the loop answered
SpecStreakLive == SpecStreak /\ WF_vars(StreakIter)

-----------------------------------------------------------------------------
(* Training routes.  Every await of a handler is a step of its own: between *)
(* two steps of one request any step of another request may happen.        *)

Users == {Caller, OtherUser}

\* The users that plan and log activities: the other user reads, deletes and
\* updates by id
Planners == {Caller}

\* :date of a request: a string that is no YYYY-MM-DD date, or a date; the
\* caller asks for two dates, the other user for one
BadDate == NullInt
ReqDates(userId) ==
  IF userId = Caller THEN {BaseDay, BaseDay + 1} ELSE {BaseDay}

\* type and time of a request body: "" is a missing type, NoTime a missing
\* time, "drill" an unknown type
PlanTypes == {"", "shooting", "pickup", "custom", "drill"}
PlanTimes == {NoTime, <<17, 30>>}

\* /^\d{4}-\d{2}-\d{2}$/.test(date)
ValidDate(date) == date # BadDate

\* !type || !time
MissingField(type, time) == type = "" \/ time = NoTime

\* ['shooting', 'pickup', 'custom'].includes(type)
ValidType(type) == type \in {"shooting", "pickup", "custom"}

\* A get-or-create that goes on to create whatever the lookup found
DayMissingOrNot(found) == TRUE

\* if (!trainingDay): create only when the lookup found nothing
DayMissing(found) == found = <<>>

\* The store's uniqueness constraint on TrainingDay (userId, date): a create
\* is accepted only when no TrainingDay has the pair
UserDateFree(userId, date) ==
  \A d \in trainingDays : ~(d.userId = userId /\ d.date = date)

\* A handler that never removes the old planned shooting
ReplacesShootingNever(type) == FALSE

\* if (type === 'shooting'): the old planned shooting is removed first
ReplacesShooting(type) == type = "shooting"

\* res.status(status).json(formatTrainingDayResponse(trainingDay))
RespOk(status, dayId) == [status |-> status, error |-> "", id |-> dayId]

\* res.status(status).json({error})
RespError(status, error) == [status |-> status, error |-> error, id |-> NullInt]

\* The response is sent: the request of slot s is over
Respond(s, r) ==
  /\ resp' = r
  /\ pc' = [pc EXCEPT ![s] = "idle"]
  /\ req' = [req EXCEPT ![s] = IdleReq]
  /\ loc' = [loc EXCEPT ![s] = NullInt]

\* Slot s is the first idle slot: the one an arriving request takes
FirstIdle(s) == pc[s] = "idle" /\ \A r \in 1..(s - 1) : pc[r] # "idle"

\* The request r arrives at slot s and runs to its first await, at position
\* first
Arrive(s, r, first) ==
  /\ FirstIdle(s)
  /\ started < MaxStarted
  /\ started' = started + 1
  /\ req' = [req EXCEPT ![s] = r]
  /\ pc' = [pc EXCEPT ![s] = first]
  /\ UNCHANGED <<loc, resp>>

\* The request of slot s is answered before its first await
Reject(s, r) ==
  /\ FirstIdle(s)
  /\ started < MaxStarted
  /\ started' = started + 1
  /\ resp' = r
  /\ UNCHANGED <<req, pc, loc>>

\* GET /api/training/:date up to its first await
GetTrainingDay(s) ==
  /\ \E userId \in Users : \E date \in ReqDates(userId) \cup {BadDate} :
       IF ~ValidDate(date)
       THEN Reject(s, RespError(400, "Invalid date format. Use YYYY-MM-DD"))
       ELSE Arrive(s, [IdleReq EXCEPT !.kind = "get", !.userId = userId,
                                      !.date = date], "find")
  /\ UNCHANGED <<storeVars, envVars, streakRun, weeklyRes, formatRun>>

\* POST /api/training/:date/planned up to its first await
PostPlanned(s) ==
  /\ \E userId \in Planners : \E date \in ReqDates(userId), type \in PlanTypes,
                             time \in PlanTimes :
       IF MissingField(type, time)
       THEN Reject(s, RespError(400, "type and time are required"))
       ELSE IF ~ValidType(type)
       THEN Reject(s, RespError(400, "Invalid activity type"))
       ELSE Arrive(s, [IdleReq EXCEPT !.kind = "planned", !.userId = userId,
                                      !.date = date, !.type = type,
                                      !.time = time], "find")
  /\ UNCHANGED <<storeVars, envVars, streakRun, weeklyRes, formatRun>>

\* ['coach_skills', 'coach_weights', 'varsity'].includes(type)
FixedTypes == {"coach_skills", "coach_weights", "varsity"}

\* The first await of a handler after getOrCreateTrainingDay
AfterDay(r) ==
  IF r.kind = "planned"
  THEN IF ReplacesShooting(r.type) THEN "deleteMany" ELSE "createPlanned"
  ELSE IF r.kind = "put" THEN "updateDay"
  ELSE IF r.kind = "quick" THEN "findExisting"
  ELSE IF r.type \in FixedTypes \cup {"shooting"} THEN "findExisting"
  ELSE "writeActual"

\* What follows getOrCreateTrainingDay returning the TrainingDay dayId; PUT
\* /:date keeps the isGameDay it was returned
DayReturned(s, dayId) ==
  IF req[s].kind = "get"
  THEN Respond(s, RespOk(200, dayId))
  ELSE /\ loc' = [loc EXCEPT ![s] = dayId]
       /\ pc' = [pc EXCEPT ![s] = AfterDay(req[s])]
       /\ req' = IF req[s].kind = "put"
                 THEN [req EXCEPT ![s].existing =
                         <<[isGameDay |->
                              \E d \in trainingDays :
                                d.id = dayId /\ d.isGameDay]>>]
                 ELSE req
       /\ resp' = resp

\* getOrCreateTrainingDay: prisma.trainingDay.findUnique
FindTrainingDay(s) ==
  /\ pc[s] = "find"
  /\ LET found == FindDayByUserDate(req[s].userId, ParseDate(req[s].date))
     IN IF DayMissing(found)
        THEN /\ pc' = [pc EXCEPT ![s] = "create"]
             /\ UNCHANGED <<req, loc, resp>>
        ELSE DayReturned(s, found[1].id)
  /\ UNCHANGED <<storeVars, envVars, streakRun, weeklyRes, formatRun, started>>

\* getOrCreateTrainingDay: prisma.trainingDay.create
CreateTrainingDay(s) ==
  /\ pc[s] = "create"
  /\ IF UserDateFree(req[s].userId, ParseDate(req[s].date))
     THEN /\ trainingDays' = trainingDays \cup
               {[id |-> nextId, userId |-> req[s].userId,
                 date |-> ParseDate(req[s].date), isGameDay |-> FALSE]}
          /\ nextId' = nextId + 1
          /\ DayReturned(s, nextId)
     ELSE /\ Respond(s, RespError(500, "Unique constraint failed"))
          /\ UNCHANGED <<trainingDays, nextId>>
  /\ UNCHANGED <<plannedActivities, actualActivities, envVars, streakRun,
                 weeklyRes, formatRun, started>>

\* prisma.plannedActivity.deleteMany({where: {trainingDayId, type: 'shooting'}})
DeleteOldShooting(s) ==
  /\ pc[s] = "deleteMany"
  /\ plannedActivities' =
       SelectSeq(plannedActivities,
                 LAMBDA p : ~(p.trainingDayId = loc[s] /\ p.type = "shooting"))
  /\ pc' = [pc EXCEPT ![s] = "createPlanned"]
  /\ UNCHANGED <<trainingDays, actualActivities, nextId, envVars, streakRun,
                 weeklyRes, formatRun, req, loc, resp, started>>

\* prisma.plannedActivity.create
CreatePlanned(s) ==
  /\ pc[s] = "createPlanned"
  /\ plannedActivities' =
       Append(plannedActivities,
              [id |-> nextId, trainingDayId |-> loc[s], type |-> req[s].type,
               plannedTime |-> req[s].time,
               location |-> IF req[s].type = "pickup" THEN "court" ELSE "null",
               name |-> IF req[s].type = "custom" THEN "drills" ELSE "null"])
  /\ nextId' = nextId + 1
  /\ pc' = [pc EXCEPT ![s] = "refetch"]
  /\ UNCHANGED <<trainingDays, actualActivities, envVars, streakRun,
                 weeklyRes, formatRun, req, loc, resp, started>>

\* prisma.trainingDay.findUnique({where: {id}}) and the response
Refetch(s) ==
  /\ pc[s] = "refetch"
  /\ IF \E d \in trainingDays : d.id = loc[s]
     THEN Respond(s, RespOk(IF req[s].kind = "planned" THEN 201 ELSE 200,
                            loc[s]))
     ELSE Respond(s, RespError(500, "Cannot read properties of null"))
  /\ UNCHANGED <<storeVars, envVars, streakRun, weeklyRes, formatRun, started>>

\* Every TrainingDay taken for the requester's
OwnedAlways(dayId, userId) == TRUE

\* activity.trainingDay.userId === req.user.userId
OwnedBy(dayId, userId) ==
  \E d \in trainingDays : d.id = dayId /\ d.userId = userId

\* Only an id of no record taken for not found
MissingActivity(activity, userId) == activity = <<>>

\* if (!activity || activity.trainingDay.userId !== req.user.userId)
NotFoundActivity(activity, userId) ==
  \/ activity = <<>>
  \/ ~OwnedBy(activity[1].trainingDayId, userId)

\* The ids a DELETE names: the planned activities of the store, and an id
\* of no record
ActivityIds == {plannedActivities[i].id : i \in 1..Len(plannedActivities)}
                 \cup {0}

\* DELETE /api/training/:date/planned/:activityId up to its first await
DeletePlanned(s) ==
  /\ \E userId \in Users, activityId \in ActivityIds :
       Arrive(s, [IdleReq EXCEPT !.kind = "delete", !.userId = userId,
                                 !.date = BaseDay, !.activityId = activityId],
              "findActivity")
  /\ UNCHANGED <<storeVars, envVars, streakRun, weeklyRes, formatRun>>

\* prisma.plannedActivity.findUnique({where: {id}, include: {trainingDay}})
\* and the ownership check
FindActivity(s) ==
  /\ pc[s] = "findActivity"
  /\ LET activity == SelectSeq(plannedActivities,
                               LAMBDA p : p.id = req[s].activityId)
     IN IF NotFoundActivity(activity, req[s].userId)
        THEN Respond(s, RespError(404, "Activity not found"))
        ELSE /\ loc' = [loc EXCEPT ![s] = activity[1].trainingDayId]
             /\ pc' = [pc EXCEPT ![s] = "deleteActivity"]
             /\ UNCHANGED <<req, resp>>
  /\ UNCHANGED <<storeVars, envVars, streakRun, weeklyRes, formatRun, started>>

\* prisma.plannedActivity.delete({where: {id}})
DeleteActivity(s) ==
  /\ pc[s] = "deleteActivity"
  /\ IF \E i \in 1..Len(plannedActivities) :
          plannedActivities[i].id = req[s].activityId
     THEN /\ plannedActivities' =
               SelectSeq(plannedActivities,
                         LAMBDA p : p.id # req[s].activityId)
          /\ pc' = [pc EXCEPT ![s] = "refetch"]
          /\ UNCHANGED <<req, loc, resp>>
     ELSE /\ Respond(s, RespError(500, "Record to delete does not exist"))
          /\ plannedActivities' = plannedActivities
  /\ UNCHANGED <<trainingDays, actualActivities, nextId, envVars, streakRun,
                 weeklyRes, formatRun, started>>

(* Actual activities: POST /:date/actual, PUT /:date/actual/:activityId,   *)
(* PUT /:date/shooting, and PUT /:date.                                    *)

\* A time-of-day that is not HH:MM ("25:61")
BadTime == <<25, 61>>

\* type, completedAt and shootingMakes of a POST /:date/actual body
LogTypes == {"", "drill", "shooting", "pickup", "custom", "coach_skills",
             "coach_weights", "varsity"}
LogTimes == {NoTime, <<17, 30>>}
LogDates == {BaseDay}
LogMakes == {NullInt, Threshold - 50, Threshold}

\* makes of a PUT /:date/shooting body: NotANumber is a string
NotANumber == 0 - 2
QuickMakes == {NotANumber, Threshold - 50, Threshold}

\* ['shooting', 'pickup', 'custom', 'coach_skills', 'coach_weights',
\*  'varsity'].includes(type)
ValidLogType(type) ==
  type \in {"shooting", "pickup", "custom", "coach_skills", "coach_weights",
            "varsity"}

\* typeof makes !== 'number'
IsNumber(makes) == makes # NotANumber /\ makes # NullInt

\* new Date().toTimeString().slice(0, 5): the server's local time-of-day
CurrentTime == <<(now + tz) % HoursPerDay, 0>>

\* a ?? b for times and for numbers
TimeOr(a, b) == IF a = NoTime THEN b ELSE a
NumberOr(a, b) == IF a = NullInt THEN b ELSE a

\* prisma.actualActivity.delete({where: {id}}): the table without the record
WithoutActual(id) == SelectSeq(actualActivities, LAMBDA a : a.id # id)

\* prisma.actualActivity.update({where: {id}, data}): the table with the
\* record's completedAt and shootingMakes replaced
UpdatedActual(id, completedAt, makes) ==
  [i \in 1..Len(actualActivities) |->
     IF actualActivities[i].id = id
     THEN [actualActivities[i] EXCEPT !.completedAt = completedAt,
                                      !.shootingMakes = makes]
     ELSE actualActivities[i]]

ActualExists(id) ==
  \E i \in 1..Len(actualActivities) : actualActivities[i].id = id

\* POST /api/training/:date/actual up to its first await; the bodies of
\* shooting and pickup logs may carry shootingMakes, and the body of a pickup
\* log may carry a completedAt that is no HH:MM
LogActual(s) ==
  /\ \E userId \in Planners, date \in LogDates, type \in LogTypes,
        time \in LogTimes \cup {BadTime}, makes \in LogMakes :
       /\ (makes # NullInt => type \in {"shooting", "pickup"})
       /\ (time = BadTime => (type = "pickup" /\ makes = NullInt))
       /\ IF type = ""
          THEN Reject(s, RespError(400, "type is required"))
          ELSE IF ~ValidLogType(type)
          THEN Reject(s, RespError(400, "Invalid activity type"))
          ELSE Arrive(s, [IdleReq EXCEPT !.kind = "actual", !.userId = userId,
                                         !.date = date, !.type = type,
                                         !.time = time, !.makes = makes],
                      "find")
  /\ UNCHANGED <<storeVars, envVars, streakRun, weeklyRes, formatRun>>

\* PUT /api/training/:date/shooting up to its first await
QuickShooting(s) ==
  /\ \E userId \in Planners, date \in LogDates, time \in LogTimes,
        makes \in QuickMakes :
       IF ~IsNumber(makes)
       THEN Reject(s, RespError(400, "makes must be a number"))
       ELSE Arrive(s, [IdleReq EXCEPT !.kind = "quick", !.userId = userId,
                                      !.date = date, !.type = "shooting",
                                      !.time = time, !.makes = makes],
                   "find")
  /\ UNCHANGED <<storeVars, envVars, streakRun, weeklyRes, formatRun>>

\* prisma.actualActivity.findFirst({where: {trainingDayId, type}}): the
\* store fixes no order, so any matching record may be the one found
FindExisting(s) ==
  /\ pc[s] = "findExisting"
  /\ LET matching == {i \in 1..Len(actualActivities) :
                        /\ actualActivities[i].trainingDayId = loc[s]
                        /\ actualActivities[i].type = req[s].type}
     IN IF matching = {}
        THEN req' = [req EXCEPT ![s].existing = <<>>]
        ELSE \E i \in matching :
               req' = [req EXCEPT ![s].existing = <<actualActivities[i]>>]
  /\ pc' = [pc EXCEPT ![s] = "writeActual"]
  /\ UNCHANGED <<storeVars, envVars, streakRun, weeklyRes, formatRun, loc,
                 resp, started>>

\* A new ActualActivity record
NewActual(dayId, type, completedAt, makes) ==
  [id |-> nextId, trainingDayId |-> dayId, type |-> type,
   completedAt |-> completedAt, shootingMakes |-> makes]

\* A stamp taken at every update that reaches the threshold
NewCompletedAtEachTime(makes, existing, completedAt) ==
  IF makes >= Threshold /\ completedAt = NoTime THEN CurrentTime
  ELSE completedAt

\* let newCompletedAt = completedAt; if (makes >= 200 &&
\* !shootingActivity?.completedAt && !completedAt) newCompletedAt = now
NewCompletedAt(makes, existing, completedAt) ==
  IF /\ makes >= Threshold
     /\ (existing = <<>> \/ existing[1].completedAt = NoTime)
     /\ completedAt = NoTime
  THEN CurrentTime
  ELSE completedAt

\* A handler that creates a record whatever it has found
ActualWriteCreates(r) ==
  [op |-> "create", makes |-> r.makes,
   completedAt |-> IF r.time = NoTime THEN CurrentTime ELSE r.time]

\* What the handler of r, having found existing, writes: "delete", "update"
\* or "create", with the completedAt and shootingMakes it writes
ActualWrite(r) ==
  IF r.kind = "quick"
  THEN LET t == NewCompletedAt(r.makes, r.existing, r.time)
       IN IF r.existing # <<>>
          THEN [op |-> "update", makes |-> r.makes,
                completedAt |-> TimeOr(t, r.existing[1].completedAt)]
          ELSE [op |-> "create", makes |-> r.makes, completedAt |-> t]
  ELSE IF r.type \in FixedTypes
  THEN IF r.existing # <<>>
       THEN [op |-> "delete", makes |-> NullInt, completedAt |-> NoTime]
       ELSE [op |-> "create", makes |-> NullInt,
             completedAt |-> IF r.time = NoTime THEN CurrentTime ELSE r.time]
  ELSE IF r.type = "shooting"
  THEN IF r.existing # <<>>
       THEN [op |-> "update",
             makes |-> NumberOr(r.makes, r.existing[1].shootingMakes),
             completedAt |-> TimeOr(r.time, r.existing[1].completedAt)]
       ELSE [op |-> "create", makes |-> NumberOr(r.makes, 0),
             completedAt |-> r.time]
  ELSE [op |-> "create", makes |-> NullInt, completedAt |-> r.time]

\* prisma.actualActivity.delete / update / create of POST /:date/actual and
\* PUT /:date/shooting; deleting or updating a record that is gone throws
WriteActual(s) ==
  /\ pc[s] = "writeActual"
  /\ LET w == ActualWrite(req[s])
     IN IF w.op = "create"
        THEN /\ actualActivities' =
                  Append(actualActivities,
                         NewActual(loc[s], req[s].type, w.completedAt, w.makes))
             /\ nextId' = nextId + 1
             /\ pc' = [pc EXCEPT ![s] = "refetch"]
             /\ UNCHANGED <<req, loc, resp>>
        ELSE IF ~ActualExists(req[s].existing[1].id)
        THEN /\ Respond(s, RespError(500, "Record does not exist"))
             /\ UNCHANGED <<actualActivities, nextId>>
        ELSE /\ actualActivities' =
                  IF w.op = "delete"
                  THEN WithoutActual(req[s].existing[1].id)
                  ELSE UpdatedActual(req[s].existing[1].id, w.completedAt,
                                     w.makes)
             /\ pc' = [pc EXCEPT ![s] = "refetch"]
             /\ UNCHANGED <<nextId, req, loc, resp>>
  /\ UNCHANGED <<trainingDays, plannedActivities, envVars, streakRun,
                 weeklyRes, formatRun, started>>

\* The ids a PUT names: the actual activities of the store, and an id of no
\* record
ActualIds == {actualActivities[i].id : i \in 1..Len(actualActivities)}
               \cup {0}

\* PUT /api/training/:date/actual/:activityId up to its first await
UpdateActual(s) ==
  /\ \E userId \in Users, activityId \in ActualIds, time \in LogTimes,
        makes \in LogMakes :
       Arrive(s, [IdleReq EXCEPT !.kind = "update", !.userId = userId,
                                 !.date = BaseDay, !.activityId = activityId,
                                 !.time = time, !.makes = makes],
              "findActual")
  /\ UNCHANGED <<storeVars, envVars, streakRun, weeklyRes, formatRun>>

\* prisma.actualActivity.findUnique({where: {id}, include: {trainingDay}})
\* and the ownership check
FindActual(s) ==
  /\ pc[s] = "findActual"
  /\ LET activity == SelectSeq(actualActivities,
                               LAMBDA a : a.id = req[s].activityId)
     IN IF NotFoundActivity(activity, req[s].userId)
        THEN Respond(s, RespError(404, "Activity not found"))
        ELSE /\ loc' = [loc EXCEPT ![s] = activity[1].trainingDayId]
             /\ req' = [req EXCEPT ![s].existing = activity]
             /\ pc' = [pc EXCEPT ![s] = "writeUpdate"]
             /\ resp' = resp
  /\ UNCHANGED <<storeVars, envVars, streakRun, weeklyRes, formatRun, started>>

\* prisma.actualActivity.update({where: {id: activityId}, data})
WriteUpdate(s) ==
  /\ pc[s] = "writeUpdate"
  /\ IF ActualExists(req[s].activityId)
     THEN /\ actualActivities' =
               UpdatedActual(req[s].activityId,
                             TimeOr(req[s].time, req[s].existing[1].completedAt),
                             NumberOr(req[s].makes,
                                      req[s].existing[1].shootingMakes))
          /\ pc' = [pc EXCEPT ![s] = "refetch"]
          /\ UNCHANGED <<req, loc, resp>>
     ELSE /\ Respond(s, RespError(500, "Record does not exist"))
          /\ actualActivities' = actualActivities
  /\ UNCHANGED <<trainingDays, plannedActivities, nextId, envVars, streakRun,
                 weeklyRes, formatRun, started>>

\* PUT /api/training/:date up to its first await
PutDay(s) ==
  /\ \E userId \in Planners, date \in LogDates,
        isGameDay \in {<<>>, <<TRUE>>, <<FALSE>>} :
       Arrive(s, [IdleReq EXCEPT !.kind = "put", !.userId = userId,
                                 !.date = date, !.isGameDay = isGameDay],
              "find")
  /\ UNCHANGED <<storeVars, envVars, streakRun, weeklyRes, formatRun>>

\* prisma.trainingDay.update({where: {id}, data: {isGameDay: isGameDay ??
\* trainingDay.isGameDay}}) and the response
UpdateDay(s) ==
  /\ pc[s] = "updateDay"
  /\ trainingDays' =
       {IF d.id = loc[s]
        THEN [d EXCEPT !.isGameDay =
                IF req[s].isGameDay = <<>> THEN req[s].existing[1].isGameDay
                ELSE req[s].isGameDay[1]]
        ELSE d : d \in trainingDays}
  /\ Respond(s, RespOk(200, loc[s]))
  /\ UNCHANGED <<plannedActivities, actualActivities, nextId, envVars,
                 streakRun, weeklyRes, formatRun, started>>

\* The store the training requests start from: empty, or holding the
\* caller's TrainingDay of BaseDay with a planned shooting and a planned
\* pickup run
SeedDayId == 1
SeedShootingId == 2
SeedPickupId == 3

SeedDays ==
  {[id |-> SeedDayId, userId |-> Caller, date |-> ParseDate(BaseDay),
    isGameDay |-> FALSE]}

SeedPlanned ==
  <<[id |-> SeedShootingId, trainingDayId |-> SeedDayId, type |-> "shooting",
     plannedTime |-> <<9, 0>>, location |-> "null", name |-> "null"],
    [id |-> SeedPickupId, trainingDayId |-> SeedDayId, type |-> "pickup",
     plannedTime |-> <<18, 0>>, location |-> "court", name |-> "null"]>>

Init ==
  /\ now = ParseDate(BaseDay) + 12
  /\ tz = 0
  /\ \/ /\ trainingDays = {}
        /\ plannedActivities = <<>>
        /\ nextId = 1
     \/ /\ trainingDays = SeedDays
        /\ plannedActivities = SeedPlanned
        /\ nextId = 4
  /\ actualActivities = <<>>
  /\ streakRun = StreakIdle
  /\ weeklyRes = <<>>
  /\ formatRun = <<>>
  /\ ReqInit

\* The other user's TrainingDay of BaseDay with a planned pickup run and a
\* logged pickup run
OtherSeedDayId == 4
OtherSeedPlannedId == 5
OtherSeedActualId == 6

OtherSeedDays ==
  {[id |-> OtherSeedDayId, userId |-> OtherUser, date |-> ParseDate(BaseDay),
    isGameDay |-> FALSE]}

OtherSeedPlanned ==
  <<[id |-> OtherSeedPlannedId, trainingDayId |-> OtherSeedDayId,
     type |-> "pickup", plannedTime |-> <<19, 0>>, location |-> "court",
     name |-> "null"]>>

OtherSeedActual ==
  <<[id |-> OtherSeedActualId, trainingDayId |-> OtherSeedDayId,
     type |-> "pickup", completedAt |-> <<19, 30>>,
     shootingMakes |-> NullInt]>>

\* The stores the requests served one after the other start from: empty,
\* the caller's seeded day, or the seeded days of both users
InitSeq ==
  /\ now = ParseDate(BaseDay) + 12
  /\ tz = 0
  /\ \/ /\ trainingDays = {}
        /\ plannedActivities = <<>>
        /\ actualActivities = <<>>
        /\ nextId = 1
     \/ /\ trainingDays = SeedDays
        /\ plannedActivities = SeedPlanned
        /\ actualActivities = <<>>
        /\ nextId = 4
     \/ /\ trainingDays = SeedDays \cup OtherSeedDays
        /\ plannedActivities = SeedPlanned \o OtherSeedPlanned
        /\ actualActivities = OtherSeedActual
        /\ nextId = 7
  /\ streakRun = StreakIdle
  /\ weeklyRes = <<>>
  /\ formatRun = <<>>
  /\ ReqInit

\* A request arrives at slot s
Start(s) == GetTrainingDay(s) \/ PostPlanned(s) \/ DeletePlanned(s)

\* The request of slot s resumes after an await
Resume(s) ==
  \/ FindTrainingDay(s)
  \/ CreateTrainingDay(s)
  \/ DeleteOldShooting(s)
  \/ CreatePlanned(s)
  \/ Refetch(s)
  \/ FindActivity(s)
  \/ DeleteActivity(s)

\* Requests served concurrently
Next == \E s \in Slots : Start(s) \/ Resume(s)

Spec == Init /\ [][Next]_vars

\* A request about actual activities or the game-day flag arrives at slot s
StartLog(s) ==
  LogActual(s) \/ QuickShooting(s) \/ UpdateActual(s) \/ PutDay(s)

\* Such a request resumes after an await
ResumeLog(s) ==
  \/ FindExisting(s)
  \/ WriteActual(s)
  \/ FindActual(s)
  \/ WriteUpdate(s)
  \/ UpdateDay(s)

\* Requests served one after the other: a request arrives only when no
\* request is in flight
NoneInFlight == \A r \in Slots : pc[r] = "idle"

NextSeq ==
  \E s \in Slots :
    \/ NoneInFlight /\ (Start(s) \/ StartLog(s))
    \/ Resume(s)
    \/ ResumeLog(s)

SpecSeq == InitSeq /\ [][NextSeq]_vars

\* An hour passes while no request is in flight
Tick ==
  /\ NoneInFlight
  /\ now < ParseDate(BaseDay) + 12 + MaxTicks
  /\ now' = now + 1
  /\ UNCHANGED <<storeVars, tz, streakRun, weeklyRes, formatRun, reqVars>>

NextShooting ==
  \/ Tick
  \/ \E s \in Slots :
       \/ NoneInFlight /\ (LogActual(s) \/ QuickShooting(s))
       \/ FindTrainingDay(s)
       \/ CreateTrainingDay(s)
       \/ FindExisting(s)
       \/ WriteActual(s)
       \/ Refetch(s)

\* Logs and quick updates served one after the other while time passes
SpecShooting == Init /\ [][NextShooting]_vars

\* POST /api/training/:date/actual of a fixed type by the caller, arriving in
\* a burst of at most MaxStarted concurrent requests or, after the burst,
\* when no request is in flight
LogFixed(s) ==
  /\ \E type \in FixedTypes :
       /\ FirstIdle(s)
       /\ started < MaxStarted \/ (NoneInFlight /\ started < MaxStarted + 2)
       /\ started' = started + 1
       /\ req' = [req EXCEPT ![s] = [IdleReq EXCEPT !.kind = "actual",
                                                   !.userId = Caller,
                                                   !.date = BaseDay,
                                                   !.type = type]]
       /\ pc' = [pc EXCEPT ![s] = "find"]
  /\ UNCHANGED <<storeVars, envVars, streakRun, weeklyRes, formatRun, loc,
                 resp>>

NextToggle ==
  \E s \in Slots :
    \/ LogFixed(s)
    \/ FindTrainingDay(s)
    \/ CreateTrainingDay(s)
    \/ FindExisting(s)
    \/ WriteActual(s)
    \/ Refetch(s)

\* A burst of concurrent toggles followed by two toggles served one after
\* the other
SpecToggle == Init /\ [][NextToggle]_vars

\* POST /api/training/:date/actual of type shooting, or PUT
\* /api/training/:date/shooting, by the caller, arriving while other requests
\* are in flight
LogShooting(s) ==
  /\ \E kind \in {"actual", "quick"}, makes \in {Threshold - 50, Threshold} :
       Arrive(s, [IdleReq EXCEPT !.kind = kind, !.userId = Caller,
                                 !.date = BaseDay, !.type = "shooting",
                                 !.makes = makes], "find")
  /\ UNCHANGED <<storeVars, envVars, streakRun, weeklyRes, formatRun>>

\* The caller's shooting record of BaseDay, logged below the threshold and
\* without a completion time
BurstShootingId == 4

BurstSeedActual ==
  <<[id |-> BurstShootingId, trainingDayId |-> SeedDayId, type |-> "shooting",
     completedAt |-> NoTime, shootingMakes |-> Threshold - 50]>>

\* The stores a burst starts from: those of Init, and the caller's seeded
\* day with its shooting record
InitBurst ==
  /\ now = ParseDate(BaseDay) + 12
  /\ tz = 0
  /\ \/ /\ trainingDays = {}
        /\ plannedActivities = <<>>
        /\ actualActivities = <<>>
        /\ nextId = 1
     \/ /\ trainingDays = SeedDays
        /\ plannedActivities = SeedPlanned
        /\ actualActivities = <<>>
        /\ nextId = 4
     \/ /\ trainingDays = SeedDays
        /\ plannedActivities = SeedPlanned
        /\ actualActivities = BurstSeedActual
        /\ nextId = 5
  /\ streakRun = StreakIdle
  /\ weeklyRes = <<>>
  /\ formatRun = <<>>
  /\ ReqInit

NextBurst ==
  \E s \in Slots :
    \/ LogFixed(s)
    \/ LogShooting(s)
    \/ FindTrainingDay(s)
    \/ CreateTrainingDay(s)
    \/ FindExisting(s)
    \/ WriteActual(s)
    \/ Refetch(s)

\* Toggles, shooting logs and quick updates of one user and date whose
\* persistence steps interleave
SpecBurst == InitBurst /\ [][NextBurst]_vars

\* The steps of the requests in flight: every pending await resolves
ResumeToggle ==
  \E s \in Slots :
    \/ FindTrainingDay(s)
    \/ CreateTrainingDay(s)
    \/ FindExisting(s)
    \/ WriteActual(s)
    \/ Refetch(s)

\* The toggles with every request in flight served to its response
SpecToggleLive == SpecToggle /\ WF_vars(ResumeToggle)

-----------------------------------------------------------------------------
(* Reconciliation: formatTrainingDayResponse(trainingDay), applied to a      *)
(* TrainingDay fetched with its plannedActivities and actualActivities.      *)
(* An optional slot is a sequence of length 0 or 1.                          *)

\* trainingDay.plannedActivities.forEach(activity => ...), from the value
\* of planned reached so far
RECURSIVE GroupPlanned(_, _)
GroupPlanned(activities, planned) ==
  IF activities = <<>> THEN planned
  ELSE LET activity == Head(activities)
       IN GroupPlanned(Tail(activities),
            CASE activity.type = "shooting" ->
                   [planned EXCEPT !.shooting =
                      <<[id |-> activity.id, time |-> activity.plannedTime]>>]
              [] activity.type = "pickup" ->
                   [planned EXCEPT !.pickupRuns =
                      Append(@, [id |-> activity.id,
                                 time |-> activity.plannedTime,
                                 location |-> activity.location])]
              [] activity.type = "custom" ->
                   [planned EXCEPT !.custom =
                      Append(@, [id |-> activity.id,
                                 time |-> activity.plannedTime,
                                 name |-> activity.name])]
              [] OTHER -> planned)

\* The stored makes passed on as it is
ShootingMakesAsStored(activity) == activity.shootingMakes

\* activity.shootingMakes || 0
ShootingMakesOrZero(activity) ==
  IF activity.shootingMakes = NullInt THEN 0 ELSE activity.shootingMakes

\* trainingDay.actualActivities.forEach(activity => { switch ... }), from
\* the value of actual reached so far
RECURSIVE GroupActual(_, _)
GroupActual(activities, actual) ==
  IF activities = <<>> THEN actual
  ELSE LET activity == Head(activities)
       IN GroupActual(Tail(activities),
            CASE activity.type = "shooting" ->
                   [actual EXCEPT
                      !.shootingMakes = ShootingMakesOrZero(activity),
                      !.shootingCompletedAt = activity.completedAt]
              [] activity.type = "coach_skills" ->
                   [actual EXCEPT !.coachSkills = TRUE]
              [] activity.type = "coach_weights" ->
                   [actual EXCEPT !.coachWeights = TRUE]
              [] activity.type = "varsity" ->
                   [actual EXCEPT !.varsity = TRUE]
              [] activity.type = "pickup" ->
                   [actual EXCEPT !.pickupRuns =
                      Append(@, [id |-> activity.id,
                                 completedAt |-> activity.completedAt])]
              [] activity.type = "custom" ->
                   [actual EXCEPT !.custom =
                      Append(@, [id |-> activity.id,
                                 completedAt |-> activity.completedAt])]
              [] OTHER -> actual)

\* function formatTrainingDayResponse(trainingDay): the value returned
FormatTrainingDayResponse(trainingDay) ==
  [id |-> trainingDay.id,
   date |-> DateStr(trainingDay.date),
   isGameDay |-> trainingDay.isGameDay,
   planned |-> GroupPlanned(trainingDay.plannedActivities,
                            [shooting |-> <<>>, pickupRuns |-> <<>>,
                             custom |-> <<>>]),
   actual |-> GroupActual(trainingDay.actualActivities,
                          [shootingMakes |-> 0, shootingCompletedAt |-> NoTime,
                           coachSkills |-> FALSE, coachWeights |-> FALSE,
                           varsity |-> FALSE, pickupRuns |-> <<>>,
                           custom |-> <<>>])]

\* A call that empties the collections it has read
TrainingDayDrained(trainingDay) ==
  [trainingDay EXCEPT !.plannedActivities = <<>>, !.actualActivities = <<>>]

\* The argument object after the call: the function reads trainingDay and
\* its collections, and assigns only to its own planned and actual objects
TrainingDayAfterFormat(trainingDay) == trainingDay

\* The planned records a collection is drawn from, by type and time
FormatPlannedKinds ==
  {[type |-> "shooting", plannedTime |-> <<9, 0>>],
   [type |-> "shooting", plannedTime |-> <<17, 30>>],
   [type |-> "pickup", plannedTime |-> <<18, 0>>],
   [type |-> "custom", plannedTime |-> <<7, 0>>]}

\* The actual records a collection is drawn from, by type, time and makes
FormatActualKinds ==
  {[type |-> "shooting", completedAt |-> NoTime, shootingMakes |-> NullInt],
   [type |-> "shooting", completedAt |-> <<10, 0>>,
    shootingMakes |-> Threshold - 50],
   [type |-> "shooting", completedAt |-> <<11, 0>>,
    shootingMakes |-> Threshold]}
    \cup {[type |-> t, completedAt |-> <<12, 0>>, shootingMakes |-> NullInt] :
            t \in {"coach_skills", "coach_weights", "varsity", "pickup",
                   "custom"}}

\* The collections of up to MaxRecords records of a set of kinds
KindSeqs(kinds) == UNION {[1..n -> kinds] : n \in 0..MaxRecords}

\* The PlannedActivity rows of the seeded day for a sequence of kinds
PlannedRows(ks) ==
  [i \in 1..Len(ks) |->
     [id |-> SeedDayId + i, trainingDayId |-> SeedDayId, type |-> ks[i].type,
      plannedTime |-> ks[i].plannedTime,
      location |-> IF ks[i].type = "pickup" THEN "court" ELSE "null",
      name |-> IF ks[i].type = "custom" THEN "drills" ELSE "null"]]

\* The ActualActivity rows of the seeded day for a sequence of kinds
ActualRows(ks) ==
  [i \in 1..Len(ks) |->
     [id |-> SeedDayId + MaxRecords + i, trainingDayId |-> SeedDayId,
      type |-> ks[i].type, completedAt |-> ks[i].completedAt,
      shootingMakes |-> ks[i].shootingMakes]]

\* A store of one TrainingDay of the caller with its activities, and the
\* record a query with include: {plannedActivities, actualActivities} gives
InitFormat ==
  /\ now = ParseDate(BaseDay) + 12
  /\ tz = 0
  /\ nextId = SeedDayId + 2 * MaxRecords + 1
  /\ \E isGameDay \in BOOLEAN :
       trainingDays = {[id |-> SeedDayId, userId |-> Caller,
                        date |-> ParseDate(BaseDay), isGameDay |-> isGameDay]}
  /\ \E ks \in KindSeqs(FormatPlannedKinds) : plannedActivities = PlannedRows(ks)
  /\ \E ks \in KindSeqs(FormatActualKinds) : actualActivities = ActualRows(ks)
  /\ \E d \in trainingDays :
       LET trainingDay == [id |-> d.id, date |-> d.date,
                           isGameDay |-> d.isGameDay,
                           plannedActivities |-> plannedActivities,
                           actualActivities |-> actualActivities]
       IN formatRun = <<[given |-> trainingDay, trainingDay |-> trainingDay,
                         out |-> <<>>]>>
  /\ streakRun = <<>>
  /\ weeklyRes = <<>>
  /\ ReqInit

\* One call formatTrainingDayResponse(trainingDay) on the fetched record
FormatCall ==
  /\ formatRun # <<>>
  /\ Len(formatRun[1].out) < MaxCalls
  /\ formatRun' =
       <<[formatRun[1] EXCEPT
            !.out = Append(@, FormatTrainingDayResponse(formatRun[1].trainingDay)),
            !.trainingDay = TrainingDayAfterFormat(@)]>>
  /\ UNCHANGED <<storeVars, envVars, streakRun, weeklyRes, reqVars>>

NextFormat == FormatCall

SpecFormat == InitFormat /\ [][NextFormat]_vars

-----------------------------------------------------------------------------
(* A streak request next to shooting writes of the same user *)

\* The caller's completed shooting of the day before BaseDay and of three
\* days before BaseDay
RaceSeedDays ==
  {[id |-> 1, userId |-> Caller, date |-> ParseDate(BaseDay - 1),
    isGameDay |-> FALSE],
   [id |-> 3, userId |-> Caller, date |-> ParseDate(BaseDay - 3),
    isGameDay |-> FALSE]}

RaceSeedActual ==
  <<[id |-> 2, trainingDayId |-> 1, type |-> "shooting",
     completedAt |-> <<16, 0>>, shootingMakes |-> Threshold],
    [id |-> 4, trainingDayId |-> 3, type |-> "shooting",
     completedAt |-> <<16, 0>>, shootingMakes |-> Threshold]>>

\* The last id of the seeded store
RaceSeedLast == 4

InitRace ==
  /\ now = ParseDate(BaseDay) + 12
  /\ tz = 0
  /\ trainingDays = RaceSeedDays
  /\ plannedActivities = <<>>
  /\ actualActivities = RaceSeedActual
  /\ nextId = RaceSeedLast + 1
  /\ streakRun = StreakIdle
  /\ weeklyRes = <<>>
  /\ formatRun = <<>>
  /\ ReqInit

\* PUT /api/training/:date/shooting {makes: 200} by the caller, for today or
\* the day before yesterday, up to its first await
RaceWrite(s) ==
  /\ \E date \in {BaseDay, BaseDay - 2} :
       Arrive(s, [IdleReq EXCEPT !.kind = "quick", !.userId = Caller,
                                 !.date = date, !.type = "shooting",
                                 !.makes = Threshold], "find")
  /\ UNCHANGED <<storeVars, envVars, streakRun, weeklyRes, formatRun>>

NextRace ==
  \/ StreakRequest
  \/ StreakIter
  \/ \E s \in Slots :
       \/ RaceWrite(s)
       \/ FindTrainingDay(s)
       \/ CreateTrainingDay(s)
       \/ FindExisting(s)
       \/ WriteActual(s)
       \/ Refetch(s)

\* The findUnique calls of the streak loop interleaved with the awaits of
\* the shooting writes
SpecRace == InitRace /\ [][NextRace]_vars

-----------------------------------------------------------------------------
(* Statistics requests and the range listing: GET /api/stats/streak,         *)
(* GET /api/stats/summary, GET /api/stats/weekly, GET /api/training?start=   *)
(* &end=.  A response that carries no single TrainingDay has a body.         *)

\* res.json(body)
RespBody(body) == [status |-> 200, error |-> "", id |-> NullInt, body |-> body]

\* The ActualActivity records of the TrainingDays of a user:
\* where: {trainingDay: {userId}}
ActualOfUser(userId) ==
  SelectSeq(actualActivities,
            LAMBDA a : \E d \in trainingDays :
                         d.id = a.trainingDayId /\ d.userId = userId)

\* _sum: {shootingMakes: true}: null makes are left out of the sum
RECURSIVE SumShootingMakes(_)
SumShootingMakes(xs) ==
  IF xs = <<>> THEN 0
  ELSE (IF Head(xs).shootingMakes = NullInt THEN 0 ELSE Head(xs).shootingMakes)
         + SumShootingMakes(Tail(xs))

\* GET /api/stats/summary up to its first await
SummaryRequest(s) ==
  /\ \E userId \in Users :
       Arrive(s, [IdleReq EXCEPT !.kind = "summary", !.userId = userId],
              "aggregate")
  /\ UNCHANGED <<storeVars, envVars, streakRun, weeklyRes, formatRun>>

\* prisma.actualActivity.aggregate({where: {type: 'shooting'}, _sum, _count})
SummaryAggregate(s) ==
  /\ pc[s] = "aggregate"
  /\ LET shooting == SelectSeq(ActualOfUser(req[s].userId),
                               LAMBDA a : a.type = "shooting")
     IN req' = [req EXCEPT ![s].existing =
                  <<[totalMakes |-> SumShootingMakes(shooting),
                     shootingDays |-> Len(shooting),
                     totalSessions |-> NullInt, perfectDays |-> NullInt]>>]
  /\ pc' = [pc EXCEPT ![s] = "countSessions"]
  /\ UNCHANGED <<storeVars, envVars, streakRun, weeklyRes, formatRun, loc,
                 resp, started>>

\* prisma.actualActivity.count({where: {type: {in: [...]}}})
SummarySessions(s) ==
  /\ pc[s] = "countSessions"
  /\ req' = [req EXCEPT ![s].existing[1].totalSessions =
               Len(SelectSeq(ActualOfUser(req[s].userId),
                             LAMBDA a : a.type \in
                               {"coach_skills", "coach_weights", "varsity",
                                "pickup", "custom"}))]
  /\ pc' = [pc EXCEPT ![s] = "countPerfect"]
  /\ UNCHANGED <<storeVars, envVars, streakRun, weeklyRes, formatRun, loc,
                 resp, started>>

\* prisma.actualActivity.count({where: {type: 'shooting',
\* shootingMakes: {gte: 200}}})
SummaryPerfect(s) ==
  /\ pc[s] = "countPerfect"
  /\ req' = [req EXCEPT ![s].existing[1].perfectDays =
               Len(SelectSeq(ActualOfUser(req[s].userId),
                             LAMBDA a : /\ a.type = "shooting"
                                        /\ a.shootingMakes >= Threshold))]
  /\ pc' = [pc EXCEPT ![s] = "streak"]
  /\ UNCHANGED <<storeVars, envVars, streakRun, weeklyRes, formatRun, loc,
                 resp, started>>

\* await calculateStreak(req.prisma, userId) of the summary: the call starts
SummaryStreak(s) ==
  /\ pc[s] = "streak"
  /\ streakRun.pc = "idle"
  /\ streakRun' = [pc |-> "loop", userId |-> req[s].userId,
                   today |-> SetHoursZero(now, tz),
                   currentDate |-> SetHoursZero(now, tz),
                   streak |-> 0, dateStr |-> NullInt, result |-> NullInt]
  /\ pc' = [pc EXCEPT ![s] = "streaking"]
  /\ UNCHANGED <<storeVars, envVars, weeklyRes, formatRun, req, loc, resp,
                 started>>

\* res.json({streak, totalMakes, totalSessions, perfectDays, shootingDays})
SummaryRespond(s) ==
  /\ pc[s] = "streaking"
  /\ streakRun.pc = "done"
  /\ Respond(s, RespBody([streak |-> streakRun.result,
                          totalMakes |-> req[s].existing[1].totalMakes,
                          totalSessions |-> req[s].existing[1].totalSessions,
                          perfectDays |-> req[s].existing[1].perfectDays,
                          shootingDays |-> req[s].existing[1].shootingDays]))
  /\ streakRun' = StreakIdle
  /\ UNCHANGED <<storeVars, envVars, weeklyRes, formatRun, started>>

\* GET /api/stats/streak: the call of calculateStreak starts
StreakRoute ==
  /\ \A s \in Slots : pc[s] = "idle"
  /\ started < MaxStarted
  /\ StreakBegin(Caller)

\* GET /api/stats/streak: res.json({streak})
StreakRespond ==
  /\ \A s \in Slots : pc[s] # "streaking"
  /\ streakRun.pc = "done"
  /\ resp' = RespBody([streak |-> streakRun.result])
  /\ streakRun' = StreakIdle
  /\ UNCHANGED <<storeVars, envVars, weeklyRes, formatRun, req, pc, loc,
                 started>>

\* start and end of a range listing: "" (NullInt) is a missing parameter
RangeParams == {NullInt, BaseDay - 1, BaseDay}

\* GET /api/training?start=&end= up to its first await; the request keeps
\* its start in date and its end in activityId
RangeRequest(s) ==
  /\ \E userId \in Users, start \in RangeParams, end \in RangeParams :
       IF start = NullInt \/ end = NullInt
       THEN Reject(s, RespError(400, "start and end query params required"))
       ELSE Arrive(s, [IdleReq EXCEPT !.kind = "range", !.userId = userId,
                                      !.date = start, !.activityId = end],
                   "findMany")
  /\ UNCHANGED <<storeVars, envVars, streakRun, weeklyRes, formatRun>>

\* include: {plannedActivities: true, actualActivities: true}
Included(d) ==
  [id |-> d.id, date |-> d.date, isGameDay |-> d.isGameDay,
   plannedActivities |-> PlannedOf(d.id), actualActivities |-> ActualOf(d.id)]

\* prisma.trainingDay.findMany({where: {userId, date: {gte, lte}}, orderBy})
\* and res.json(trainingDays.map(formatTrainingDayResponse)); endDate is the
\* last instant of the end date
RangeFindMany(s) ==
  /\ pc[s] = "findMany"
  /\ LET found == FindDaysInRange(req[s].userId, ParseDate(req[s].date),
                                  ParseDate(req[s].activityId)
                                    + HoursPerDay - 1)
     IN Respond(s, RespBody([i \in 1..Len(found) |->
                               FormatTrainingDayResponse(Included(found[i]))]))
  /\ UNCHANGED <<storeVars, envVars, streakRun, weeklyRes, formatRun, started>>

\* The caller's TrainingDay of the day before BaseDay with a shooting record
\* at the threshold
StatsDayId == 7
StatsShootingId == 8

StatsSeedDays ==
  {[id |-> StatsDayId, userId |-> Caller, date |-> ParseDate(BaseDay - 1),
    isGameDay |-> FALSE]}

StatsSeedActual ==
  <<[id |-> StatsShootingId, trainingDayId |-> StatsDayId, type |-> "shooting",
     completedAt |-> <<16, 0>>, shootingMakes |-> Threshold]>>

\* The stores the statistics requests find: those of InitSeq, and one with
\* yesterday's completed shooting
InitStats ==
  /\ now = ParseDate(BaseDay) + 12
  /\ tz = 0
  /\ \/ /\ trainingDays = {}
        /\ plannedActivities = <<>>
        /\ actualActivities = <<>>
        /\ nextId = 1
     \/ /\ trainingDays = SeedDays \cup OtherSeedDays
        /\ plannedActivities = SeedPlanned \o OtherSeedPlanned
        /\ actualActivities = OtherSeedActual
        /\ nextId = 7
     \/ /\ trainingDays = SeedDays \cup OtherSeedDays \cup StatsSeedDays
        /\ plannedActivities = SeedPlanned \o OtherSeedPlanned
        /\ actualActivities = OtherSeedActual \o StatsSeedActual
        /\ nextId = 9
  /\ streakRun = StreakIdle
  /\ weeklyRes = <<>>
  /\ formatRun = <<>>
  /\ ReqInit

\* The statistics requests and the range listing, next to GET
\* /api/training/:date, served one after the other
NextStats ==
  \/ StreakRoute
  \/ StreakIter
  \/ StreakRespond
  \/ WeeklyRequest(Caller)
  \/ \E s \in Slots :
       \/ /\ \A r \in Slots : pc[r] = "idle"
          /\ streakRun.pc = "idle"
          /\ SummaryRequest(s) \/ RangeRequest(s) \/ GetTrainingDay(s)
       \/ SummaryAggregate(s)
       \/ SummarySessions(s)
       \/ SummaryPerfect(s)
       \/ SummaryStreak(s)
       \/ SummaryRespond(s)
       \/ RangeFindMany(s)
       \/ FindTrainingDay(s)
       \/ CreateTrainingDay(s)

SpecStats == InitStats /\ [][NextStats]_vars

-----------------------------------------------------------------------------
(* Streak properties *)

\* The caller's stored shooting makes of a calendar date, 0 when the date
\* has no TrainingDay or no shooting record
StoredMakes(userId, d) ==
  LET ids == {x.id : x \in {y \in trainingDays :
                              y.userId = userId /\ y.date = d * 24}}
      recs == SelectSeq(actualActivities,
                        LAMBDA a : a.trainingDayId \in ids /\ a.type = "shooting")
  IN IF recs = <<>> \/ recs[1].shootingMakes < 0 THEN 0
     ELSE recs[1].shootingMakes

\* How far back the properties look
Horizon == MaxRun + RecentDays + 2

\* "Today" is read as the current calendar date in UTC or in the server's
\* zone: a statement about today fails when it fails under both readings,
\* and holds when it holds under both.
TodayReadings == {Today, LocalToday}

\* The caller's stored makes of the dates t, t - 1, ...
MakesBack(t) == [j \in 0..Horizon |-> StoredMakes(Caller, t - j)]

\* In the table m of makes, the length of the maximal run of completed
\* dates ending `from` days before today
RunIn(m, from) ==
  CHOOSE k \in 0..(Horizon + 1 - from) :
    /\ \A j \in 0..(k - 1) : m[from + j] >= 200
    /\ from + k <= Horizon => m[from + k] < 200

\* In the table m of makes, every date of [today - k, today] is completed
AllCompleted(m, k) == \A j \in 0..k : m[j] >= 200

StreakDone == streakRun.pc = "done"

\* C1 (as stated): the streak returned is the length of the maximal run of
\* completed dates ending at today when today is completed, and of the one
\* ending at yesterday otherwise.
C1_StreakIsMaximalRun ==
  StreakDone =>
    \E t \in TodayReadings : \A m \in {MakesBack(t)} :
      streakRun.result = IF m[0] >= 200 THEN RunIn(m, 0) ELSE RunIn(m, 1)

\* C2 (as stated): calculateStreak never evaluates a date more than 365
\* days before today.
C2_NeverBeyond365Days ==
  streakRun.dateStr # NullInt =>
    \E t \in TodayReadings : streakRun.dateStr >= t - 365

\* C3 (as stated): for every k >= 0, if every date of [today - k, today] is
\* completed, the streak returned is at least k.
C3_MonotoneEveryK ==
  StreakDone =>
    \E t \in TodayReadings : \A m \in {MakesBack(t)} :
      \A k \in 0..Horizon : AllCompleted(m, k) => streakRun.result >= k

\* C3 (amended): for every k with 0 <= k <= 366, if every date of
\* [today - k, today] is completed, the streak returned is at least k.
C3_MonotoneUpTo366 ==
  StreakDone =>
    \A t \in TodayReadings : \A m \in {MakesBack(t)} :
      \A k \in 0..366 : AllCompleted(m, k) => streakRun.result >= k

\* C3 witness: a call that returned with [today - 366, today] all completed
C3_Witness ==
  /\ StreakDone
  /\ streakRun.result = 366
  /\ \A m \in {MakesBack(Today)} : AllCompleted(m, 366)

\* The streak logic relative to the date the loop starts at (the UTC date of
\* the server's local midnight): the run ending there, or the day before
\* when that date is not completed, cut at 366.
StreakFromStartDate ==
  StreakDone =>
    \A m \in {MakesBack(DateStr(SetHoursZero(now, tz)))} :
      \A run \in {IF m[0] >= 200 THEN RunIn(m, 0) ELSE RunIn(m, 1)} :
        streakRun.result = IF run > 366 THEN 366 ELSE run

-----------------------------------------------------------------------------
(* Weekly properties *)

WeeklyDone == weeklyRes # <<>>

\* The caller's TrainingDays whose date lies in [t - 6, t]
WindowDays(t) ==
  {d \in trainingDays :
     /\ d.userId = Caller
     /\ \E k \in 0..6 : d.date = (t - k) * 24}

\* The planned activities of a set of TrainingDays
PlannedIn(days) ==
  SelectSeq(plannedActivities,
            LAMBDA p : \E d \in days : d.id = p.trainingDayId)

\* The first actual activity of the planned activity's type on its day
\* exists, both times are present and they differ by at most 30 minutes
OnTimeByRule(p) ==
  \E k \in 1..Len(actualActivities) :
    LET a == actualActivities[k]
    IN /\ a.trainingDayId = p.trainingDayId /\ a.type = p.type
       /\ \A j \in 1..(k - 1) :
            ~(actualActivities[j].trainingDayId = p.trainingDayId
              /\ actualActivities[j].type = p.type)
       /\ a.completedAt # <<>> /\ p.plannedTime # <<>>
       /\ LET diff == (a.completedAt[1] * 60 + a.completedAt[2])
                       - (p.plannedTime[1] * 60 + p.plannedTime[2])
          IN diff <= 30 /\ diff >= 0 - 30

\* round(100 * o / t), a half rounding up
ExactPercent(o, t) == (200 * o + t) \div (2 * t)

\* C4 (as stated): dailyStats has exactly 7 entries, of 7 consecutive
\* calendar dates in ascending order, the last one being today's date.
C4_SevenDaysEndingToday ==
  WeeklyDone =>
    LET ds == weeklyRes[1].dailyStats
    IN /\ Len(ds) = 7
       /\ \A i \in 1..6 : ds[i + 1].date = ds[i].date + 1
       /\ ds[7].date \in TodayReadings

\* C5 (as stated): each entry's makes is the stored shooting makes of the
\* caller's TrainingDay of the entry's date (0 when absent), completed is
\* makes >= 200, and no TrainingDay of the caller dated in
\* [today - 6, today] is left out of the computation.
C5_EntriesMatchStore ==
  WeeklyDone =>
    LET ds == weeklyRes[1].dailyStats
    IN /\ \A i \in 1..Len(ds) :
            /\ ds[i].makes = StoredMakes(Caller, ds[i].date)
            /\ ds[i].completed <=> ds[i].makes >= 200
       /\ \E t \in TodayReadings :
            \A d \in WindowDays(t) : d.id \in weeklyRes[1].fetched

\* C6 (as stated): every planned activity of every TrainingDay in the
\* window counts once in the total, it is on time exactly by the rule, and
\* consistencyScore = round(100 * onTime / total).
C6_ConsistencyByRule ==
  WeeklyDone =>
    \E t \in TodayReadings :
      LET planned == PlannedIn(WindowDays(t))
          onTime == Len(SelectSeq(planned, OnTimeByRule))
      IN /\ weeklyRes[1].totalPlanned = Len(planned)
         /\ weeklyRes[1].onTime = onTime
         /\ Len(planned) > 0 =>
              weeklyRes[1].consistencyScore = ExactPercent(onTime, Len(planned))

\* C7: with no planned activity on any TrainingDay of the window the
\* consistencyScore is 0, and it is always an integer in 0..100.
C7_ScoreDefined ==
  WeeklyDone =>
    /\ weeklyRes[1].consistencyScore \in 0..100
    /\ \A t \in TodayReadings :
         PlannedIn(WindowDays(t)) = <<>> => weeklyRes[1].consistencyScore = 0

\* C7 witness: a response for a window that holds a TrainingDay of the
\* caller, with actual activities and no planned activity
C7_Witness ==
  /\ WeeklyDone
  /\ WindowDays(Today) # {}
  /\ PlannedIn(WindowDays(Today)) = <<>>
  /\ \E d \in WindowDays(Today) : ActualOf(d.id) # <<>>
  /\ weeklyRes[1].consistencyScore = 0

\* The timing rule and the score over the TrainingDays the handler fetched,
\* for fewer than 40 planned activities
ConsistencyOfFetched ==
  WeeklyDone =>
    LET planned == PlannedIn({d \in trainingDays :
                                d.id \in weeklyRes[1].fetched})
        onTime == Len(SelectSeq(planned, OnTimeByRule))
    IN /\ weeklyRes[1].totalPlanned = Len(planned)
       /\ weeklyRes[1].onTime = onTime
       /\ (Len(planned) > 0 /\ Len(planned) < 40) =>
            weeklyRes[1].consistencyScore = ExactPercent(onTime, Len(planned))

-----------------------------------------------------------------------------
(* Training route properties *)

\* The planned activities of a table that belong to a TrainingDay and are,
\* or are not, of type shooting
ShootingIn(table, dayId) ==
  SelectSeq(table, LAMBDA p : p.trainingDayId = dayId /\ p.type = "shooting")

OthersIn(table, dayId) ==
  SelectSeq(table, LAMBDA p : p.trainingDayId = dayId /\ p.type # "shooting")

\* Slot s serves a POST of a planned shooting
PostsShooting(s) == req[s].kind = "planned" /\ req[s].type = "shooting"

\* C8: with requests served one after the other, a TrainingDay never has
\* more than one planned shooting; the create of a POST of a planned
\* shooting leaves the day with exactly one planned shooting, a new record
\* with the request's time; and no step of such a POST changes the day's
\* planned activities of the other types.
C8_OnePlannedShootingSequential ==
  /\ [](\A d \in trainingDays :
          Len(ShootingIn(plannedActivities, d.id)) <= 1)
  /\ [][\A s \in Slots :
          (PostsShooting(s) /\ pc[s] = "createPlanned" /\ pc'[s] = "refetch") =>
            LET old == ShootingIn(plannedActivities, loc[s])
                new == ShootingIn(plannedActivities', loc[s])
            IN /\ Len(new) = 1
               /\ new[1].plannedTime = req[s].time
               /\ \A i \in 1..Len(plannedActivities) :
                    plannedActivities[i].id # new[1].id]_vars
  /\ [][\A s \in Slots :
          (PostsShooting(s) /\ pc[s] \in {"deleteMany", "createPlanned"}) =>
            OthersIn(plannedActivities', loc[s]) =
              OthersIn(plannedActivities, loc[s])]_vars

\* C8 witness: a POST of a planned shooting has replaced the planned
\* shooting of a TrainingDay that also has a planned pickup run
C8_Witness ==
  \E s \in Slots :
    /\ PostsShooting(s)
    /\ pc[s] = "refetch"
    /\ loc[s] = SeedDayId
    /\ \E i \in 1..Len(plannedActivities) :
         plannedActivities[i].id = SeedPickupId
    /\ \A i \in 1..Len(plannedActivities) :
         plannedActivities[i].id # SeedShootingId
    /\ Len(ShootingIn(plannedActivities, SeedDayId)) = 1

\* C9 (as stated): when requests interleave at their persistence steps, a
\* TrainingDay holds at most one planned shooting once the requests have
\* completed.
C9_OnePlannedShootingConcurrent ==
  NoneInFlight =>
    \A d \in trainingDays :
      Cardinality({i \in 1..Len(plannedActivities) :
                     /\ plannedActivities[i].trainingDayId = d.id
                     /\ plannedActivities[i].type = "shooting"}) <= 1

\* Slot s is about to resume inside getOrCreateTrainingDay and the
\* TrainingDay it asks for exists
AsksExisting(s) ==
  ~UserDateFree(req[s].userId, req[s].date * 24)

\* C10: in every state reached under concurrent requests there is at most
\* one TrainingDay per (user, date); a TrainingDay is never deleted and
\* keeps its id; a get-or-create whose lookup finds the TrainingDay returns
\* it and creates nothing; and a create for a (user, date) that another
\* request has created meanwhile is rejected by the uniqueness constraint
\* and adds nothing.
C10_OneDayPerUserDate ==
  /\ [](\A d1 \in trainingDays : \A d2 \in trainingDays :
          (d1.id = d2.id \/ (d1.userId = d2.userId /\ d1.date = d2.date))
            => d1 = d2)
  /\ [][\A d \in trainingDays : \E e \in trainingDays' :
          e.id = d.id /\ e.userId = d.userId /\ e.date = d.date]_vars
  /\ [][\A s \in Slots :
          (pc[s] = "find" /\ pc'[s] # "find" /\ AsksExisting(s)) =>
            /\ trainingDays' = trainingDays
            /\ pc'[s] # "create"
            /\ \E d \in trainingDays :
                 /\ d.userId = req[s].userId
                 /\ d.date = req[s].date * 24
                 /\ IF req[s].kind = "get"
                    THEN resp' = [status |-> 200, error |-> "", id |-> d.id]
                    ELSE loc'[s] = d.id]_vars
  /\ [][\A s \in Slots :
          (pc[s] = "create" /\ pc'[s] # "create" /\ AsksExisting(s)) =>
            /\ trainingDays' = trainingDays
            /\ pc'[s] = "idle"
            /\ resp'.status = 500]_vars

\* C10 witness: two requests asked for the same absent (user, date); one
\* created the TrainingDay, and the create of the other has been rejected
C10_Witness ==
  /\ resp.status = 500
  /\ resp.error = "Unique constraint failed"
  /\ Cardinality(trainingDays) = 1
  /\ plannedActivities = <<>>
  /\ started = 2
  /\ \E s \in Slots : pc[s] = "idle"

-----------------------------------------------------------------------------
(* Actual activity properties *)

\* The ids of the records of a table of a TrainingDay and a type
IdsOfType(table, dayId, type) ==
  {table[i].id : i \in {j \in 1..Len(table) :
                          table[j].trainingDayId = dayId /\ table[j].type = type}}

\* The types with a single slot per TrainingDay
SingleTypes == {"coach_skills", "coach_weights", "varsity", "shooting"}

\* C11: with requests served one after the other, a TrainingDay never has
\* more than one ActualActivity of a type among coach_skills, coach_weights,
\* varsity and shooting; a log or quick update of such a type adds a record
\* only when the day has none of the type, and a shooting log or quick
\* update of a day with a shooting record keeps that record and adds none.
C11_OneActualPerSingleType ==
  /\ [](\A d \in trainingDays : \A t \in SingleTypes :
          Cardinality(IdsOfType(actualActivities, d.id, t)) <= 1)
  /\ [][\A s \in Slots :
          (pc[s] = "writeActual" /\ req[s].type \in SingleTypes) =>
            LET before == IdsOfType(actualActivities, loc[s], req[s].type)
                after == IdsOfType(actualActivities', loc[s], req[s].type)
            IN /\ (after \ before # {}) => before = {}
               /\ (req[s].type = "shooting" /\ before # {}) => after = before
         ]_vars

\* C11 witness: a quick update has written to a day that had a shooting
\* record, and the day has one shooting record
C11_Witness ==
  \E s \in Slots :
    /\ pc[s] = "refetch"
    /\ req[s].kind = "quick"
    /\ req[s].existing # <<>>
    /\ Cardinality(IdsOfType(actualActivities, loc[s], "shooting")) = 1

\* The caller's TrainingDay of BaseDay has an ActualActivity of type t: the
\* presence flag of t
FlagOf(t) ==
  \E d \in trainingDays :
    /\ d.userId = Caller
    /\ d.date = BaseDay * 24
    /\ IdsOfType(actualActivities, d.id, t) # {}

\* A POST /:date/actual of type t is in flight / has written
TogglingOf(t) ==
  \E s \in Slots : pc[s] # "idle" /\ req[s].kind = "actual" /\ req[s].type = t

ToggledOf(t) ==
  \E s \in Slots : pc[s] = "refetch" /\ req[s].kind = "actual" /\ req[s].type = t

\* C12 (as stated): whatever state the day is in, when two POST /:date/actual
\* requests of a fixed type t are served one after the other with no other
\* request in between, the presence flag of t is afterwards what it was
\* before the first of them; and a toggle changes no activity of another
\* type.
C12_ToggleSymmetry ==
  /\ \A t \in {"coach_skills", "coach_weights", "varsity"} :
       \A flag \in BOOLEAN :
         []((NoneInFlight /\ started = MaxStarted /\ FlagOf(t) = flag) =>
              []((started = MaxStarted + 1 /\ TogglingOf(t)) =>
                   []((started = MaxStarted + 2 /\ ToggledOf(t)) =>
                        FlagOf(t) = flag)))
  /\ [][\A s \in Slots :
          (pc[s] = "writeActual" /\ req[s].kind = "actual"
             /\ req[s].type \in {"coach_skills", "coach_weights", "varsity"}) =>
            \A i \in 1..Len(actualActivities) :
              actualActivities[i].type # req[s].type =>
                \E j \in 1..Len(actualActivities') :
                  actualActivities'[j] = actualActivities[i]]_vars

\* The shooting records of a table that belong to a TrainingDay
ShootingRecords(table, dayId) ==
  SelectSeq(table, LAMBDA a : a.trainingDayId = dayId /\ a.type = "shooting")

\* C13: a quick update (PUT /:date/shooting) leaves the day with a shooting
\* record whose makes is the supplied makes; when the request carries no
\* completedAt, the record's completion time is the stored one if one was
\* stored, else the current time-of-day if makes >= 200, else absent.
C13_QuickUpdateStamp ==
  [][\A s \in Slots :
       (pc[s] = "writeActual" /\ req[s].kind = "quick") =>
         LET old == ShootingRecords(actualActivities, loc[s])
             new == ShootingRecords(actualActivities', loc[s])
             stored == IF old = <<>> THEN <<>> ELSE old[1].completedAt
         IN /\ Len(new) = 1
            /\ new[1].shootingMakes = req[s].makes
            /\ req[s].time = <<>> =>
                 new[1].completedAt =
                   IF stored # <<>> THEN stored
                   ELSE IF req[s].makes >= 200
                   THEN <<(now + tz) % 24, 0>>
                   ELSE <<>>]_vars

\* C13 witness: a quick update with makes below 200 and no completedAt has
\* written to a record stamped at an earlier hour, and the stamp is kept
C13_Witness ==
  \E s \in Slots :
    /\ pc[s] = "refetch"
    /\ req[s].kind = "quick"
    /\ req[s].makes < 200
    /\ req[s].time = <<>>
    /\ req[s].existing # <<>>
    /\ req[s].existing[1].completedAt = <<(now + tz - 1) % 24, 0>>
    /\ ShootingRecords(actualActivities, loc[s])[1].completedAt =
         req[s].existing[1].completedAt
    /\ ShootingRecords(actualActivities, loc[s])[1].shootingMakes = req[s].makes

-----------------------------------------------------------------------------
(* Reconciliation properties *)

\* The records of a type in a collection, in the collection's order
OfType(activities, t) == SelectSeq(activities, LAMBDA a : a.type = t)

\* The outputs of the calls made so far, with the record they were given
FormatOutputs ==
  IF formatRun = <<>> THEN {}
  ELSE {[given |-> formatRun[1].given, out |-> formatRun[1].out[i]] :
          i \in 1..Len(formatRun[1].out)}

\* C14: when a collection holds more than one shooting record, the planned
\* shooting slot, and the actual shootingMakes and shootingCompletedAt, are
\* those of the first shooting record of the collection.
C14_FirstShootingWins ==
  \A c \in FormatOutputs :
    LET plannedShooting == OfType(c.given.plannedActivities, "shooting")
        actualShooting == OfType(c.given.actualActivities, "shooting")
    IN /\ Len(plannedShooting) > 1 =>
            c.out.planned.shooting =
              <<[id |-> plannedShooting[1].id,
                 time |-> plannedShooting[1].plannedTime]>>
       /\ Len(actualShooting) > 1 =>
            /\ c.out.actual.shootingMakes =
                 (IF actualShooting[1].shootingMakes = 0 - 1 THEN 0
                  ELSE actualShooting[1].shootingMakes)
            /\ c.out.actual.shootingCompletedAt = actualShooting[1].completedAt

\* C15: the three flags are true exactly when a record of their type is
\* given; without a shooting actual record shootingMakes is 0 and
\* shootingCompletedAt absent, and shootingMakes is 0 when the shooting
\* records carry no makes; planned.shooting is absent exactly when no planned
\* shooting record is given; the pickup and custom lists hold one entry per
\* record of the type, in the collection's order.
C15_ResultShape ==
  \A c \in FormatOutputs :
    LET givenPlanned == c.given.plannedActivities
        givenActual == c.given.actualActivities
        hasType(t) == \E i \in 1..Len(givenActual) : givenActual[i].type = t
        plannedPickup == OfType(givenPlanned, "pickup")
        plannedCustom == OfType(givenPlanned, "custom")
        actualPickup == OfType(givenActual, "pickup")
        actualCustom == OfType(givenActual, "custom")
    IN /\ c.out.actual.coachSkills = hasType("coach_skills")
       /\ c.out.actual.coachWeights = hasType("coach_weights")
       /\ c.out.actual.varsity = hasType("varsity")
       /\ ~hasType("shooting") =>
            /\ c.out.actual.shootingMakes = 0
            /\ c.out.actual.shootingCompletedAt = <<>>
       /\ (hasType("shooting") /\ \A i \in 1..Len(givenActual) :
             givenActual[i].type = "shooting" =>
               givenActual[i].shootingMakes = 0 - 1) =>
            c.out.actual.shootingMakes = 0
       /\ (c.out.planned.shooting = <<>>) <=>
            (OfType(givenPlanned, "shooting") = <<>>)
       /\ c.out.planned.pickupRuns =
            [i \in 1..Len(plannedPickup) |->
               [id |-> plannedPickup[i].id,
                time |-> plannedPickup[i].plannedTime,
                location |-> plannedPickup[i].location]]
       /\ c.out.planned.custom =
            [i \in 1..Len(plannedCustom) |->
               [id |-> plannedCustom[i].id,
                time |-> plannedCustom[i].plannedTime,
                name |-> plannedCustom[i].name]]
       /\ c.out.actual.pickupRuns =
            [i \in 1..Len(actualPickup) |->
               [id |-> actualPickup[i].id,
                completedAt |-> actualPickup[i].completedAt]]
       /\ c.out.actual.custom =
            [i \in 1..Len(actualCustom) |->
               [id |-> actualCustom[i].id,
                completedAt |-> actualCustom[i].completedAt]]

\* C15 witness: a formatted day whose shooting record carries no makes, with
\* a coach_skills record, a planned pickup and no planned shooting
C15_Witness ==
  \E c \in FormatOutputs :
    /\ OfType(c.given.actualActivities, "shooting") # <<>>
    /\ OfType(c.given.actualActivities, "coach_skills") # <<>>
    /\ OfType(c.given.plannedActivities, "pickup") # <<>>
    /\ c.out.actual.shootingMakes = 0
    /\ c.out.actual.coachSkills
    /\ ~c.out.actual.varsity
    /\ c.out.planned.shooting = <<>>
    /\ Len(c.out.planned.pickupRuns) = 1

-----------------------------------------------------------------------------
(* Ownership properties *)

\* The TrainingDays of a user and the activities of those days
OwnedRecords(u) ==
  LET ids == {d.id : d \in {x \in trainingDays : x.userId = u}}
  IN [days |-> {d \in trainingDays : d.userId = u},
      planned |-> SelectSeq(plannedActivities,
                            LAMBDA p : p.trainingDayId \in ids),
      actual |-> SelectSeq(actualActivities,
                           LAMBDA a : a.trainingDayId \in ids)]

\* C17: every step of a request authenticated as one user leaves the
\* TrainingDays, PlannedActivities and ActualActivities owned by any other
\* user unchanged, and the response it sends carries the data of no
\* TrainingDay of another user.
C17_OwnershipIsolation ==
  [][\A s \in Slots :
       pc[s] # "idle" =>
         /\ \A u \in {1, 2} \ {req[s].userId} :
              OwnedRecords(u)' = OwnedRecords(u)
         /\ (pc'[s] = "idle" /\ resp'.id # 0 - 1) =>
              \E d \in trainingDays' :
                d.id = resp'.id /\ d.userId = req[s].userId]_vars

\* C17 witness: the other user's PUT on its own actual activity has written,
\* next to the caller's TrainingDay and planned activities
C17_Witness ==
  \E s \in Slots :
    /\ pc[s] = "refetch"
    /\ req[s].kind = "update"
    /\ req[s].userId = 2
    /\ req[s].makes # 0 - 1
    /\ OwnedRecords(2).actual[1].shootingMakes = req[s].makes
    /\ OwnedRecords(1).planned # <<>>

\* The record an activity id names in a table, as a sequence of length 0 or 1
Named(table, id) == SelectSeq(table, LAMBDA a : a.id = id)

\* The request of slot s names an activity id of no record, or of a record
\* of another user's TrainingDay
NamesNoneOrForeign(s) ==
  LET activity == IF pc[s] = "findActivity"
                  THEN Named(plannedActivities, req[s].activityId)
                  ELSE Named(actualActivities, req[s].activityId)
  IN /\ pc[s] \in {"findActivity", "findActual"}
     /\ \/ activity = <<>>
        \/ \E d \in trainingDays :
             d.id = activity[1].trainingDayId /\ d.userId # req[s].userId

\* C18: DELETE planned/:activityId and PUT actual/:activityId answer 404
\* "Activity not found" both when the id names no record and when it names
\* a record of another user's TrainingDay, and leave the store unchanged.
C18_NotFoundAlike ==
  [][\A s \in Slots :
       NamesNoneOrForeign(s) =>
         /\ pc'[s] = "idle"
         /\ resp' = [status |-> 404, error |-> "Activity not found",
                     id |-> 0 - 1]
         /\ trainingDays' = trainingDays
         /\ plannedActivities' = plannedActivities
         /\ actualActivities' = actualActivities]_vars

\* C18 witness: a PUT actual/:activityId of one user, naming an actual
\* activity of the other user's TrainingDay, has found the record and is at
\* the ownership check, after an earlier request was answered not found
C18_Witness ==
  \E s \in Slots :
    /\ pc[s] = "findActual"
    /\ NamesNoneOrForeign(s)
    /\ Named(actualActivities, req[s].activityId) # <<>>
    /\ resp.status = 404
    /\ resp.error = "Activity not found"

-----------------------------------------------------------------------------
(* Validation properties *)

\* The request carries a date that is no YYYY-MM-DD, a time-of-day that is
\* no HH:MM, a type its route does not know, or lacks a required field
Malformed(r) ==
  \/ r.date = 0 - 1
  \/ (r.time # <<>> /\ ~(r.time[1] \in 0..23 /\ r.time[2] \in 0..59))
  \/ (r.kind = "planned" /\
        (r.time = <<>> \/ r.type \notin {"shooting", "pickup", "custom"}))
  \/ (r.kind = "actual" /\
        r.type \notin {"shooting", "pickup", "custom", "coach_skills",
                       "coach_weights", "varsity"})
  \/ (r.kind = "quick" /\ r.makes < 0)

\* C19: a training request with a malformed date, a malformed time-of-day,
\* an invalid type or a missing required field is answered with a validation
\* error (400), and no step of it creates or modifies a TrainingDay, a
\* PlannedActivity or an ActualActivity.
C19_ValidationPrecedesPersistence ==
  [][\A s \in Slots :
       (pc[s] # "idle" /\ Malformed(req[s])) =>
         /\ trainingDays' = trainingDays
         /\ plannedActivities' = plannedActivities
         /\ actualActivities' = actualActivities
         /\ pc'[s] = "idle" => resp'.status = 400]_vars

-----------------------------------------------------------------------------
(* Shooting-makes properties *)

\* C20: in every reachable state a shooting-makes value is carried only by
\* ActualActivity records of type shooting: every pickup, custom,
\* coach_skills, coach_weights and varsity record has none.
C20_MakesOnlyOnShooting ==
  \A i \in 1..Len(actualActivities) :
    actualActivities[i].type # "shooting" =>
      actualActivities[i].shootingMakes = 0 - 1

-----------------------------------------------------------------------------
(* Streak termination *)

\* C21: calculateStreak terminates and returns a non-negative integer: an
\* iteration that neither stops the loop nor increments the streak starts at
\* today and leaves currentDate before today, currentDate never moves
\* forward (so that branch is taken at most once), and a running loop
\* always reaches its return.
C21_StreakTerminates ==
  /\ [](streakRun.pc = "done" => streakRun.result >= 0)
  /\ [][streakRun.pc = "loop" =>
          /\ streakRun'.currentDate <= streakRun.currentDate
          /\ \/ streakRun'.pc = "done"
             \/ streakRun'.streak = streakRun.streak + 1
             \/ /\ streakRun.currentDate = streakRun.today
                /\ streakRun'.currentDate < streakRun.today]_vars
  /\ (streakRun.pc = "loop") ~> (streakRun.pc = "done")

\* C21 witness: the loop has returned a streak that ends yesterday, after
\* stepping back over a today whose date holds no TrainingDay
C21_Witness ==
  /\ streakRun.pc = "done"
  /\ streakRun.result > 0
  /\ \A d \in trainingDays :
       d.userId = streakRun.userId => d.date # (streakRun.today \div 24) * 24
  /\ streakRun.currentDate < streakRun.today - 24

-----------------------------------------------------------------------------
(* Concurrent actual activities *)

\* C22: when POST /:date/actual requests of one fixed type, or shooting logs
\* and quick updates, of one user and date interleave between their find and
\* their create, delete or update, the day holds at most one ActualActivity
\* of the type once the requests have completed.
C22_OneActualConcurrent ==
  NoneInFlight =>
    \A d \in trainingDays :
      \A t \in {"coach_skills", "coach_weights", "varsity", "shooting"} :
        Cardinality({i \in 1..Len(actualActivities) :
                       /\ actualActivities[i].trainingDayId = d.id
                       /\ actualActivities[i].type = t}) <= 1

-----------------------------------------------------------------------------
(* Statistics frame *)

\* The step is one of a statistics request or of the range listing: of the
\* streak call, of the weekly request, or of a slot serving a summary or a
\* range listing
StatsStep ==
  \/ streakRun' # streakRun
  \/ weeklyRes' # weeklyRes
  \/ \E s \in Slots :
       /\ pc'[s] # pc[s]
       /\ req[s].kind \in {"summary", "range"}
            \/ req'[s].kind \in {"summary", "range"}

\* C23: no step of GET /api/stats/streak, /summary, /weekly or of the range
\* listing creates, modifies or deletes a TrainingDay, a PlannedActivity or
\* an ActualActivity; calculateStreak creates no TrainingDay for a date it
\* walks over.
C23_StatsReadOnly ==
  [][StatsStep =>
       /\ trainingDays' = trainingDays
       /\ plannedActivities' = plannedActivities
       /\ actualActivities' = actualActivities
       /\ nextId' = nextId]_vars

\* C23 witness: the streak call of a summary has returned after walking
\* back to a date without a TrainingDay, and the date still has none
C23_Witness ==
  \E s \in Slots :
    /\ pc[s] = "streaking"
    /\ streakRun.pc = "done"
    /\ streakRun.result = 1
    /\ req[s].existing[1].totalMakes = 200
    /\ streakRun.dateStr = BaseDay - 2
    /\ \A d \in trainingDays : d.date # streakRun.dateStr * 24

-----------------------------------------------------------------------------
(* Shooting record lifetime *)

\* C24: no step deletes a shooting ActualActivity, and no step leaves a
\* shooting ActualActivity that had a completion time without one.
C24_ShootingKept ==
  [][\A i \in 1..Len(actualActivities) :
       actualActivities[i].type = "shooting" =>
         \E j \in 1..Len(actualActivities') :
           /\ actualActivities'[j].id = actualActivities[i].id
           /\ actualActivities'[j].type = "shooting"
           /\ actualActivities[i].completedAt # <<>> =>
                actualActivities'[j].completedAt # <<>>]_vars

-----------------------------------------------------------------------------
(* Streak next to concurrent writes *)

\* The caller's makes of calendar date d in the store state that held the
\* records of id up to k.  Every write of SpecRace creates a record or
\* rewrites makes 200 as 200, so these are the store states that existed.
MakesUpTo(k, d) ==
  LET ids == {x.id : x \in {y \in trainingDays :
                              y.id <= k /\ y.userId = Caller /\ y.date = d * 24}}
      recs == SelectSeq(actualActivities,
                        LAMBDA a : /\ a.id <= k
                                   /\ a.trainingDayId \in ids
                                   /\ a.type = "shooting")
  IN IF recs = <<>> \/ recs[1].shootingMakes < 0 THEN 0
     ELSE recs[1].shootingMakes

\* The streak of that store state: the run of completed dates ending today,
\* or ending yesterday when today is not completed
StreakUpTo(k) ==
  LET m == [j \in 0..Horizon |-> MakesUpTo(k, Today - j)]
  IN IF m[0] >= 200 THEN RunIn(m, 0) ELSE RunIn(m, 1)

\* C25: when shooting writes of the same user run concurrently with a
\* streak request, the value calculateStreak returns is the streak of some
\* store state that existed up to its return.
C25_StreakOfSomeState ==
  streakRun.pc = "done" =>
    \E k \in RaceSeedLast..(nextId - 1) : streakRun.result = StreakUpTo(k)

=============================================================================
